---------------------------- MODULE Spec2Model ----------------------------
(***************************************************************************)
(* Velyx: connector sync pipelines (Notion pages, Gmail messages), the     *)
(* OAuth callbacks that trigger them, the disconnect handlers and the      *)
(* vector-search tools that read what the pipelines wrote; the chat socket *)
(* handler with the per-conversation memory and the agent graph it runs;   *)
(* the CRM contacts tool and the citations a turn collects from tool       *)
(* results.                                                                *)
(*                                                                         *)
(* Every await of a pipeline is one step of a run, so that a run can fail  *)
(* or stop between any two of its writes.  External calls (provider API,   *)
(* embedding service, vector store, relational store) succeed or fail      *)
(* nondeterministically.                                                   *)
(***************************************************************************)
EXTENDS Integers, Sequences, FiniteSets, Bags, TLC

(* ------------------------------ bounds -------------------------------- *)
\* largest number of chunks the text splitter yields for one page
MaxLen == 2
\* number of operations (sync runs started, page edits) in one behaviour
MaxOps == 2

Users == {"u1", "u2"}
\* u1 connects, syncs and disconnects during a behaviour; u2 does nothing
\* during it
Acting == {"u1"}
\* source record ids (Notion page ids / Gmail message ids), in provider order
RecSeq == <<"r1", "r2">>
Records == {RecSeq[k] : k \in 1..Len(RecSeq)}
\* the pages each user's Notion workspace lists: r1 is private to u1, r2 is
\* shared with u2's workspace
NotionPages(u) == IF u = "u1" THEN {"r1", "r2"} ELSE {"r2"}
\* the message ids each user's inbox lists (ids are per mailbox)
GmailInbox(u) == IF u = "u1" THEN {"r1", "r2"} ELSE {"r1"}
\* whether a message has text left after cleaning: messages are immutable
EmailText(emailId) == IF emailId = "r1" THEN 1 ELSE 0
\* concurrent pipeline invocations the process can hold
Slots == {1, 2}
\* what was connected and synced before the behaviour starts: u1 connected
\* Notion when r1 was its only page (r2 was shared with it later), u2 connected
\* both providers; every record listed then was synced at version 1
NotionSynced0 == {<<"u1", "r1">>, <<"u2", "r2">>}
GmailSynced0 == {<<"u2", "r1">>}

VARIABLES
    oauth,      \* OAuthAccount table: oauth[u][p] is NoAccount or the row
    page,       \* provider side: page[r] = [ver, len] (last_edited_time, chunks of text)
    notionLog,  \* NotionSyncLog table: notionLog[u][r] is NoRow or [ver, cnt]
    gmailLog,   \* GmailSyncLog table: set of <<userId, emailId>> rows
    notionVec,  \* Zilliz collection "Notion": bag of [user, rec, idx]
    gmailVec,   \* Zilliz collection "Gmail": bag of [user, rec]
    runs,       \* runs[s]: the pipeline invocation in slot s
    nops,       \* number of sync runs started and page edits so far
    aborted,    \* some run so far ended in its outer catch or was cut by an exit
    out,        \* what the last step returned to its caller or reported (transient)
    dbMsgs,     \* ChatMessage table: dbMsgs[c] is the rows of chat c by createdAt
    dbChats,    \* Chat table: the ids of the rows
    created,    \* createdChats of the chat controller
    store,      \* chatHistoryStore: store[c] is 0 or the history object of c
    hist,       \* hist[h]: the messages of history object h
    nobj,       \* history objects allocated so far
    inited,     \* initializedConversations
    turns,      \* turns[t]: the send-message handler in slot t
    nturns,     \* send-message events and clearChatHistory calls so far
    served,     \* conversations a turn has been processed for since the
                \* process started or the conversation was cleared
    call        \* the tool call or agent computation in progress, its
                \* arguments and what it has produced so far

syncVars == <<oauth, page, notionLog, gmailLog, notionVec, gmailVec,
              runs, nops, aborted, out>>

chatVars == <<dbMsgs, dbChats, created, store, hist, nobj, inited,
              turns, nturns, served>>

vars == <<oauth, page, notionLog, gmailLog, notionVec, gmailVec,
          runs, nops, aborted, out,
          dbMsgs, dbChats, created, store, hist, nobj, inited,
          turns, nturns, served, call>>

stores == <<notionLog, gmailLog, notionVec, gmailVec>>

\* nothing was returned to an outside caller
NoOut == [kind |-> "none", user |-> "-", prov |-> "-", hits |-> {}]

Providers == {"notion", "google"}

\* no tool call or citation collection is being followed
NoCall == [fn |-> "none"]

\* a slot that holds no pipeline invocation
NoRun == [pc |-> "idle", prov |-> "-", user |-> "-", force |-> FALSE,
          list |-> <<>>, i |-> 0, n |-> 0,
          result |-> "-", how |-> "-", clean |-> FALSE, rerun |-> FALSE]

(* ------------------------------ stores -------------------------------- *)
\* rows of a collection whose user_id field equals u
UserRows(bag, u) == {x \in BagToSet(bag) : x.user = u}
\* rows of a collection with user_id u and page_id / email_id r
RecRows(bag, u, r) == {x \in BagToSet(bag) : x.user = u /\ x.rec = r}
\* the rows of user u, with their multiplicities
UserBag(bag, u) == [x \in UserRows(bag, u) |-> bag[x]]
\* the rows of user u and record r, with their multiplicities
RecBag(bag, u, r) == [x \in RecRows(bag, u, r) |-> bag[x]]
\* number of rows (with multiplicity) of user u and record r
RecCount(bag, u, r) ==
    BagCardinality([x \in RecRows(bag, u, r) |-> bag[x]])

\* milvus delete, filter `page_id == "<pageId>"`
deleteByPage(bag, userId, pageId) ==
    [x \in {y \in BagToSet(bag) : y.rec # pageId} |-> bag[x]]

\* a milvus delete whose filter matches every row
deleteAllRows(bag, userId) == EmptyBag

\* milvus delete, filter `user_id == "<userId>"`
deleteByUser(bag, userId) ==
    [x \in {y \in BagToSet(bag) : y.user # userId} |-> bag[x]]

\* no row in the NotionSyncLog table for a (userId, pageId)
NoRow == [ver |-> 0, cnt |-> 0]
\* no row in the OAuthAccount table for a (userId, provider)
NoAccount == [on |-> FALSE, exp |-> FALSE, refresh |-> FALSE]

\* syncLogRepository.delete({ userId }) on the NotionSyncLog table
notionLogDelete(log, userId) ==
    [u \in Users |-> IF u = userId THEN [r \in Records |-> NoRow] ELSE log[u]]

\* syncLogRepository.delete({ userId }) on the GmailSyncLog table
gmailLogDelete(log, userId) == {row \in log : row[1] # userId}

\* the rows storeChunksInZilliz inserts: one per chunk, chunk_index 0..n-1
chunkRows(userId, pageId, n) ==
    SetToBag({[user |-> userId, rec |-> pageId, idx |-> k] : k \in 0..(n - 1)})

\* the row storeEmailInZilliz inserts
emailRow(userId, emailId) == SetToBag({[user |-> userId, rec |-> emailId]})

(* ------------------------------ provider ------------------------------ *)
Pos(r) == CHOOSE k \in 1..Len(RecSeq) : RecSeq[k] = r

\* Notion search API, sort descending by last_edited_time
NotionBefore(a, b) ==
    \/ page[a].ver > page[b].ver
    \/ page[a].ver = page[b].ver /\ Pos(a) < Pos(b)

\* the full result of the Notion search for the pages user u can see
NotionSearch(u) ==
    LET W == NotionPages(u)
        ord == CHOOSE sq \in [1..Cardinality(W) -> W] :
                 /\ \A a, b \in 1..Cardinality(W) : a < b => NotionBefore(sq[a], sq[b])
    IN  [k \in 1..Cardinality(W) |-> [id |-> ord[k], ver |-> page[ord[k]].ver]]

\* the full result of gmail.users.messages.list for user u
GmailList(u) ==
    LET ids == SelectSeq(RecSeq, LAMBDA r : r \in GmailInbox(u))
    IN  [k \in 1..Len(ids) |-> [id |-> ids[k], ver |-> 0]]

\* bookkeeping of "nothing happened outside the run": any change made outside a
\* run (provider edit, connect, disconnect) ends the undisturbed period
Disturbed ==
    [s \in Slots |->
        IF runs[s].pc = "done"
        THEN [runs[s] EXCEPT !.clean = FALSE, !.user = "-", !.prov = "-"]
        ELSE [runs[s] EXCEPT !.clean = FALSE, !.rerun = FALSE]]

\* a page is edited in the provider: new last_edited_time, new text
EditPage(r, n) ==
    /\ nops < MaxOps
    /\ nops' = nops + 1
    /\ page' = [page EXCEPT ![r] = [ver |-> page[r].ver + 1, len |-> n]]
    /\ runs' = Disturbed
    /\ UNCHANGED <<oauth, stores>>
    /\ out' = NoOut
    /\ aborted' = aborted

    /\ UNCHANGED <<chatVars, call>>
(* ------------------------------- runs --------------------------------- *)
Free(s) == runs[s].pc \in {"idle", "done"}

\* the returned promise settles; what is kept of the run is its outcome and, for
\* a non-forced run that went through its whole listing with no failure and no
\* outside change, whose run it was (so that "the same sync again" is visible)
Settle(r, result, how, complete) ==
    LET again == complete /\ r.clean /\ how = "returned" /\ ~r.force
    IN  [NoRun EXCEPT !.pc = "done", !.result = result, !.how = how,
                      !.clean = again,
                      !.user = IF again THEN r.user ELSE "-",
                      !.prov = IF again THEN r.prov ELSE "-"]

\* a catch block that rethrows: the entry point's promise rejects
Rethrow(r) == Settle(r, "rejected", "caught", FALSE)

\* the catch block that encloses the whole pipeline body: log, do not rethrow
OuterCatch(r) == Settle(r, "resolved", "caught", FALSE)

\* the pipeline returns normally (complete: after the loop over the listing)
Return(r, complete) == Settle(r, "resolved", "returned", complete)

\* the for-loop over the listing moves to the next record or ends
NextRec(r) ==
    IF r.i < Len(r.list)
    THEN [r EXCEPT !.i = r.i + 1, !.pc = "check", !.n = 0]
    ELSE Return(r, TRUE)

\* the catch block inside the Gmail loop: log, go on with the next message
InnerCatch(r) == NextRec([r EXCEPT !.clean = FALSE])

\* the pipeline function is entered in slot s
NewRun(s, u, p, force) ==
    [NoRun EXCEPT !.pc = "load", !.prov = p, !.user = u, !.force = force,
                  !.result = "pending", !.clean = TRUE,
                  !.rerun = /\ ~force
                            /\ runs[s].pc = "done" /\ runs[s].clean
                            /\ runs[s].user = u /\ runs[s].prov = p]

Cur(r) == r.list[r.i]

\* `expiresAt && now.isAfter(expiresAt.subtract(5, "minutes"))`: the clock decides
ExpiryChoices(acc) == IF acc.exp THEN BOOLEAN ELSE {FALSE}

\* one paginated listing call: the provider returns the next k records of its
\* current result after the ones already accumulated
ListCall(r, full, k) ==
    LET have == Len(r.list)
        got  == r.list \o SubSeq(full, have + 1, have + k)
    IN  IF have + k < Len(full)
        THEN [r EXCEPT !.list = got]
        ELSE IF Len(got) = 0
             THEN Return(r, TRUE)
             ELSE [r EXCEPT !.list = got, !.i = 1, !.pc = "check"]

\* how many records a listing call may return
ListSizes(r, full) ==
    IF Len(r.list) >= Len(full) THEN {0} ELSE 1..(Len(full) - Len(r.list))

\* how a listing call ends: with a page of results, with a 401-class error
\* response, or with any other error
ListResults == {"ok", "401", "error"}

\* a pagination loop that stops at a failed call and goes on with the records
\* listed so far
ListFailedGoOn(r) ==
    IF Len(r.list) = 0 THEN Return(r, TRUE) ELSE [r EXCEPT !.i = 1, !.pc = "check"]

\* a listing call throws: the pagination loop has no try of its own, the
\* exception reaches the catch around the pipeline body
ListFailed(r) == OuterCatch(r)

\* what the catch around the pipeline body reports for the error it caught:
\* "authentication failed" for error.response.status 401, "refresh_failed" for
\* the error thrown by the token refresh (other error logs are not modelled)
CatchLog(r, err) ==
    IF err = "401" THEN [NoOut EXCEPT !.kind = "auth_failed", !.user = r.user, !.prov = r.prov]
    ELSE IF err = "refresh" THEN [NoOut EXCEPT !.kind = "refresh_failed", !.user = r.user, !.prov = r.prov]
    ELSE NoOut

(* --------------------------- Notion pipeline --------------------------- *)
\* refreshNotionToken: without refresh token the old access token is returned
refreshNotionToken(acc, ok) ==
    IF ~acc.refresh THEN [ok |-> TRUE, acc |-> acc]
    ELSE IF ok THEN [ok |-> TRUE, acc |-> acc]
    ELSE [ok |-> FALSE, acc |-> acc]

\* ingestAllNotionPages(userId, forceSync), called directly
ingestAllNotionPages(s, u, force) ==
    /\ Free(s)
    /\ nops < MaxOps
    /\ runs' = [runs EXCEPT ![s] = NewRun(s, u, "notion", force)]
    /\ nops' = nops + 1
    /\ UNCHANGED <<oauth, page, stores>>
    /\ out' = NoOut
    /\ aborted' = aborted

    /\ UNCHANGED <<chatVars, call>>
\* account lookup and expiry check
NotionLoad(s) ==
    LET r == runs[s] acc == oauth[r.user]["notion"] IN
    /\ r.pc = "load" /\ r.prov = "notion"
    /\ \E ok \in BOOLEAN :
         IF ~ok THEN runs' = [runs EXCEPT ![s] = OuterCatch(r)] /\ out' = NoOut
         ELSE IF acc = NoAccount
         THEN runs' = [runs EXCEPT ![s] = Return(r, FALSE)] /\ out' = NoOut
         ELSE \E expiring \in ExpiryChoices(acc) :
                /\ runs' = [runs EXCEPT ![s] =
                              [r EXCEPT !.pc = IF expiring THEN "refresh" ELSE "list"]]
                /\ out' = NoOut
    /\ UNCHANGED <<oauth, page, stores, nops>>
    /\ aborted' = (aborted \/ runs'[s].how = "caught")

    /\ UNCHANGED <<chatVars, call>>
\* one call of the search API in the pagination loop
NotionList(s) ==
    LET r == runs[s] full == NotionSearch(r.user) IN
    /\ r.pc = "list" /\ r.prov = "notion"
    /\ \E res \in ListResults :
         IF res # "ok"
         THEN /\ runs' = [runs EXCEPT ![s] = ListFailed(r)]
              /\ out' = CatchLog(r, res)
         ELSE /\ \E k \in ListSizes(r, full) :
                   runs' = [runs EXCEPT ![s] = ListCall(r, full, k)]
              /\ out' = NoOut
    /\ UNCHANGED <<oauth, page, stores, nops>>
    /\ aborted' = (aborted \/ runs'[s].how = "caught")

    /\ UNCHANGED <<chatVars, call>>
\* a change test that finds every page changed
shouldSyncAlways(log, userId, pageId, lastEditedTime) == TRUE

\* shouldSyncPage(userId, pageId, lastEditedTime) on the sync log table
shouldSyncPage(log, userId, pageId, lastEditedTime) ==
    IF log[userId][pageId] = NoRow THEN TRUE
    ELSE lastEditedTime > log[userId][pageId].ver

\* the change-detection step of the loop
NotionCheck(s) ==
    LET r == runs[s] IN
    /\ r.pc = "check" /\ r.prov = "notion"
    /\ IF r.force THEN runs' = [runs EXCEPT ![s] = [r EXCEPT !.pc = "fetch"]]
       ELSE \E ok \in BOOLEAN :
              IF ~ok THEN runs' = [runs EXCEPT ![s] = OuterCatch(r)]
              ELSE IF shouldSyncPage(notionLog, r.user, Cur(r).id, Cur(r).ver)
                   THEN runs' = [runs EXCEPT ![s] = [r EXCEPT !.pc = "fetch"]]
                   ELSE runs' = [runs EXCEPT ![s] = NextRec(r)]
    /\ UNCHANGED <<oauth, page, stores, nops>>
    /\ out' = NoOut
    /\ aborted' = (aborted \/ runs'[s].how = "caught")

    /\ UNCHANGED <<chatVars, call>>
\* fetchPageContent: the number of chunks of the page text; "" on any error
fetchPageContent(pageId, ok) == IF ok THEN page[pageId].len ELSE 0

\* content fetch and the empty-content test
NotionFetch(s) ==
    LET r == runs[s] IN
    /\ r.pc = "fetch" /\ r.prov = "notion"
    /\ \E ok \in BOOLEAN :
         LET n == fetchPageContent(Cur(r).id, ok) IN
         runs' = [runs EXCEPT ![s] =
                    [r EXCEPT !.n = n, !.clean = r.clean /\ ok,
                              !.pc = IF n = 0 THEN "log" ELSE "delete"]]
    /\ UNCHANGED <<oauth, page, stores, nops>>
    /\ out' = NoOut
    /\ aborted' = (aborted \/ runs'[s].how = "caught")

    /\ UNCHANGED <<chatVars, call>>
\* storeChunksInZilliz, first part: delete the page's rows, errors ignored
NotionDelete(s) ==
    LET r == runs[s] IN
    /\ r.pc = "delete" /\ r.prov = "notion"
    /\ \E ok \in BOOLEAN :
         /\ notionVec' = IF ok THEN deleteByPage(notionVec, r.user, Cur(r).id)
                          ELSE notionVec
         /\ runs' = [runs EXCEPT ![s] =
                       [r EXCEPT !.pc = "insert", !.clean = r.clean /\ ok]]
    /\ UNCHANGED <<oauth, page, notionLog, gmailLog, gmailVec, nops>>
    /\ out' = NoOut
    /\ aborted' = (aborted \/ runs'[s].how = "caught")

    /\ UNCHANGED <<chatVars, call>>
\* storeChunksInZilliz, second part: embed the chunks and insert the rows
NotionInsert(s) ==
    LET r == runs[s] IN
    /\ r.pc = "insert" /\ r.prov = "notion"
    /\ \E ok \in BOOLEAN :
         IF ok
         THEN /\ notionVec' = notionVec (+) chunkRows(r.user, Cur(r).id, r.n)
              /\ runs' = [runs EXCEPT ![s] = [r EXCEPT !.pc = "log"]]
         ELSE /\ runs' = [runs EXCEPT ![s] = OuterCatch(r)]
              /\ UNCHANGED notionVec
    /\ UNCHANGED <<oauth, page, notionLog, gmailLog, gmailVec, nops>>
    /\ out' = NoOut
    /\ aborted' = (aborted \/ runs'[s].how = "caught")

    /\ UNCHANGED <<chatVars, call>>
\* updateSyncLog: update the row of (userId, pageId) or create it
updateSyncLog(log, userId, pageId, lastEditedTime, chunkCount) ==
    [log EXCEPT ![userId][pageId] = [ver |-> lastEditedTime, cnt |-> chunkCount]]

\* the ledger write of the loop (with 0 chunks for a page without content)
NotionLog(s) ==
    LET r == runs[s] IN
    /\ r.pc = "log" /\ r.prov = "notion"
    /\ \E ok \in BOOLEAN :
         IF ok
         THEN /\ notionLog' = updateSyncLog(notionLog, r.user, Cur(r).id, Cur(r).ver, r.n)
              /\ runs' = [runs EXCEPT ![s] = NextRec(r)]
         ELSE /\ runs' = [runs EXCEPT ![s] = OuterCatch(r)]
              /\ UNCHANGED notionLog
    /\ UNCHANGED <<oauth, page, notionVec, gmailLog, gmailVec, nops>>
    /\ out' = NoOut
    /\ aborted' = (aborted \/ runs'[s].how = "caught")

    /\ UNCHANGED <<chatVars, call>>
(* ---------------------------- Gmail pipeline --------------------------- *)
\* a refresh that hands back the stored access token when it cannot get a new
\* one
refreshKeepOldToken(acc, ok) == [ok |-> TRUE, acc |-> acc]

\* refreshGoogleToken: throws without refresh token or when the exchange fails
refreshGoogleToken(acc, ok) ==
    IF ~acc.refresh THEN [ok |-> FALSE, acc |-> acc]
    ELSE IF ok THEN [ok |-> TRUE, acc |-> acc]
    ELSE [ok |-> FALSE, acc |-> acc]

\* ingestGmailEmails(userId, forceSync), called directly
ingestGmailEmails(s, u, force) ==
    /\ Free(s)
    /\ nops < MaxOps
    /\ runs' = [runs EXCEPT ![s] = NewRun(s, u, "google", force)]
    /\ nops' = nops + 1
    /\ UNCHANGED <<oauth, page, stores>>
    /\ out' = NoOut
    /\ aborted' = aborted

    /\ UNCHANGED <<chatVars, call>>
\* account lookup and expiry check
GmailLoad(s) ==
    LET r == runs[s] acc == oauth[r.user]["google"] IN
    /\ r.pc = "load" /\ r.prov = "google"
    /\ \E ok \in BOOLEAN :
         IF ~ok THEN runs' = [runs EXCEPT ![s] = OuterCatch(r)] /\ out' = NoOut
         ELSE IF acc = NoAccount
         THEN runs' = [runs EXCEPT ![s] = Return(r, FALSE)] /\ out' = NoOut
         ELSE \E expiring \in ExpiryChoices(acc) :
                /\ runs' = [runs EXCEPT ![s] =
                              [r EXCEPT !.pc = IF expiring THEN "refresh" ELSE "list"]]
                /\ out' = NoOut
    /\ UNCHANGED <<oauth, page, stores, nops>>
    /\ aborted' = (aborted \/ runs'[s].how = "caught")

    /\ UNCHANGED <<chatVars, call>>
\* one call of gmail.users.messages.list in the pagination loop
GmailListStep(s) ==
    LET r == runs[s] full == GmailList(r.user) IN
    /\ r.pc = "list" /\ r.prov = "google"
    /\ \E res \in ListResults :
         IF res # "ok"
         THEN /\ runs' = [runs EXCEPT ![s] = ListFailed(r)]
              /\ out' = CatchLog(r, res)
         ELSE /\ \E k \in ListSizes(r, full) :
                   runs' = [runs EXCEPT ![s] = ListCall(r, full, k)]
              /\ out' = NoOut
    /\ UNCHANGED <<oauth, page, stores, nops>>
    /\ aborted' = (aborted \/ runs'[s].how = "caught")

    /\ UNCHANGED <<chatVars, call>>
\* isEmailSynced(userId, emailId) on the sync log table
isEmailSynced(log, userId, emailId) == <<userId, emailId>> \in log

\* the already-synced test of the loop (outside the per-message try)
GmailCheck(s) ==
    LET r == runs[s] IN
    /\ r.pc = "check" /\ r.prov = "google"
    /\ IF r.force THEN runs' = [runs EXCEPT ![s] = [r EXCEPT !.pc = "fetch"]]
       ELSE \E ok \in BOOLEAN :
              IF ~ok THEN runs' = [runs EXCEPT ![s] = OuterCatch(r)]
              ELSE IF isEmailSynced(gmailLog, r.user, Cur(r).id)
                   THEN runs' = [runs EXCEPT ![s] = NextRec(r)]
                   ELSE runs' = [runs EXCEPT ![s] = [r EXCEPT !.pc = "fetch"]]
    /\ UNCHANGED <<oauth, page, stores, nops>>
    /\ out' = NoOut
    /\ aborted' = (aborted \/ runs'[s].how = "caught")

    /\ UNCHANGED <<chatVars, call>>
\* extractEmailContent of the fetched message: 1 if text remains, else 0
extractEmailContent(emailId) == EmailText(emailId)

\* messages.get, content extraction and the empty-content test
GmailFetch(s) ==
    LET r == runs[s] IN
    /\ r.pc = "fetch" /\ r.prov = "google"
    /\ \E ok \in BOOLEAN :
         IF ~ok THEN runs' = [runs EXCEPT ![s] = InnerCatch(r)]
         ELSE IF extractEmailContent(Cur(r).id) = 0
              THEN runs' = [runs EXCEPT ![s] = NextRec(r)]
              ELSE runs' = [runs EXCEPT ![s] = [r EXCEPT !.pc = "insert", !.n = 1]]
    /\ UNCHANGED <<oauth, page, stores, nops>>
    /\ out' = NoOut
    /\ aborted' = (aborted \/ runs'[s].how = "caught")

    /\ UNCHANGED <<chatVars, call>>
\* storeEmailInZilliz: embed subject and content, insert one row
GmailInsert(s) ==
    LET r == runs[s] IN
    /\ r.pc = "insert" /\ r.prov = "google"
    /\ \E ok \in BOOLEAN :
         IF ok
         THEN /\ gmailVec' = gmailVec (+) emailRow(r.user, Cur(r).id)
              /\ runs' = [runs EXCEPT ![s] = [r EXCEPT !.pc = "log"]]
         ELSE /\ runs' = [runs EXCEPT ![s] = InnerCatch(r)]
              /\ UNCHANGED gmailVec
    /\ UNCHANGED <<oauth, page, notionLog, gmailLog, notionVec, nops>>
    /\ out' = NoOut
    /\ aborted' = (aborted \/ runs'[s].how = "caught")

    /\ UNCHANGED <<chatVars, call>>
\* `accessToken = await refreshXToken(account)` of a run that found the token
\* within the expiry margin; a failure reaches the catch around the pipeline
\* body.  Notion rows are stored with tokenExpiresAt null, so only Gmail runs
\* get here
TokenRefresh(s) ==
    LET r == runs[s] acc == oauth[r.user][r.prov] IN
    /\ r.pc = "refresh"
    /\ \E rok \in BOOLEAN :
         LET t == IF r.prov = "notion" THEN refreshNotionToken(acc, rok)
                  ELSE refreshGoogleToken(acc, rok) IN
         IF t.ok
         THEN /\ runs' = [runs EXCEPT ![s] = [r EXCEPT !.pc = "list"]]
              /\ oauth' = [oauth EXCEPT ![r.user][r.prov] = t.acc]
              /\ out' = NoOut
         ELSE /\ runs' = [runs EXCEPT ![s] = OuterCatch(r)]
              /\ oauth' = oauth
              /\ out' = CatchLog(r, "refresh")
    /\ UNCHANGED <<page, stores, nops>>
    /\ aborted' = (aborted \/ runs'[s].how = "caught")

    /\ UNCHANGED <<chatVars, call>>
\* recordSyncedEmail: create and save a new row; the table is unique on
\* (userId, emailId), so saving a second row for the pair is rejected
recordSyncedEmail(log, userId, emailId, ok) ==
    IF ok /\ <<userId, emailId>> \notin log
    THEN [ok |-> TRUE, log |-> log \cup {<<userId, emailId>>}]
    ELSE [ok |-> FALSE, log |-> log]

\* the ledger write of the loop
GmailLog(s) ==
    LET r == runs[s] IN
    /\ r.pc = "log" /\ r.prov = "google"
    /\ \E ok \in BOOLEAN :
         LET w == recordSyncedEmail(gmailLog, r.user, Cur(r).id, ok) IN
         /\ gmailLog' = w.log
         /\ runs' = [runs EXCEPT ![s] = IF w.ok THEN NextRec(r) ELSE InnerCatch(r)]
    /\ UNCHANGED <<oauth, page, notionLog, notionVec, gmailVec, nops>>
    /\ out' = NoOut
    /\ aborted' = (aborted \/ runs'[s].how = "caught")

    /\ UNCHANGED <<chatVars, call>>
\* the process stops while a run is in flight
ProcessCrash(s) ==
    /\ ~Free(s)
    /\ runs' = [runs EXCEPT ![s] = NoRun]
    /\ UNCHANGED <<oauth, page, stores, nops>>
    /\ out' = NoOut
    /\ aborted' = TRUE

    /\ UNCHANGED <<chatVars, call>>
(* ------------------------ connection handlers ------------------------- *)
\* whether Notion's token response carries a refresh_token: its tokens do not
\* expire (tokenExpiresAt is stored as null), none is issued
NotionTokenResponses == {FALSE}
\* whether Google's token response carries an expiry_date: it always does
GoogleExpiryDates == {TRUE}

\* handleNotionCallback after the code exchange: save the account, start the
\* ingestion without awaiting it, redirect
handleNotionCallback(s, u) ==
    /\ Free(s)
    /\ nops < MaxOps
    /\ \E rt \in NotionTokenResponses :
         oauth' = [oauth EXCEPT ![u]["notion"] =
                     IF oauth[u]["notion"] = NoAccount
                     THEN [on |-> TRUE, exp |-> FALSE, refresh |-> rt]
                     ELSE oauth[u]["notion"]]
    /\ runs' = [runs EXCEPT ![s] = NewRun(s, u, "notion", FALSE)]
    /\ nops' = nops + 1
    /\ out' = [NoOut EXCEPT !.kind = "redirect", !.user = u, !.prov = "notion"]
    /\ aborted' = aborted
    /\ UNCHANGED <<page, stores>>

    /\ UNCHANGED <<chatVars, call>>
\* handleGoogleCallback after the code exchange: save the account, start the
\* ingestion without awaiting it, redirect
handleGoogleCallback(s, u) ==
    /\ Free(s)
    /\ nops < MaxOps
    /\ \E rt \in BOOLEAN, ex \in GoogleExpiryDates :
         oauth' = [oauth EXCEPT ![u]["google"] =
                     [on |-> TRUE, exp |-> ex,
                      refresh |-> rt \/ oauth[u]["google"].refresh]]
    /\ runs' = [runs EXCEPT ![s] = NewRun(s, u, "google", FALSE)]
    /\ nops' = nops + 1
    /\ out' = [NoOut EXCEPT !.kind = "redirect", !.user = u, !.prov = "google"]
    /\ aborted' = aborted
    /\ UNCHANGED <<page, stores>>

    /\ UNCHANGED <<chatVars, call>>
\* deleteUserNotionData(userId): vok / lok tell whether the vector delete and
\* the sync-log delete succeed
deleteUserNotionData(vec, log, userId, vok, lok) ==
    [vec    |-> IF vok THEN deleteByUser(vec, userId) ELSE vec,
     log    |-> IF lok THEN notionLogDelete(log, userId) ELSE log,
     status |-> IF lok THEN "deleted" ELSE "delete_error"]

\* deleteUserGmailData(userId)
deleteUserGmailData(vec, log, userId, vok, lok) ==
    [vec    |-> IF vok THEN deleteByUser(vec, userId) ELSE vec,
     log    |-> IF lok THEN gmailLogDelete(log, userId) ELSE log,
     status |-> IF lok THEN "deleted" ELSE "delete_error"]

\* disconnectNotion: 404 when the user has no account for the provider; else delete
\* the data, then remove the account (rok: the remove succeeds)
disconnectNotion(u) ==
    /\ IF oauth[u]["notion"] = NoAccount
       THEN /\ out' = [NoOut EXCEPT !.kind = "not_found", !.user = u, !.prov = "notion"]
            /\ UNCHANGED <<oauth, notionVec, notionLog, runs>>
       ELSE /\ \E vok \in BOOLEAN, lok \in BOOLEAN, rok \in BOOLEAN :
                 LET d == deleteUserNotionData(notionVec, notionLog, u, vok, lok) IN
                 /\ notionVec' = d.vec
                 /\ notionLog' = d.log
                 /\ out' = [NoOut EXCEPT !.kind = d.status, !.user = u, !.prov = "notion"]
                 /\ oauth' = IF d.status = "deleted" /\ rok
                             THEN [oauth EXCEPT ![u]["notion"] = NoAccount] ELSE oauth
            /\ runs' = Disturbed
    /\ UNCHANGED <<page, gmailLog, gmailVec, nops, aborted>>

    /\ UNCHANGED <<chatVars, call>>
\* disconnectGmail: 404 when the user has no account for the provider; else delete
\* the data, then remove the account (rok: the remove succeeds)
disconnectGmail(u) ==
    /\ IF oauth[u]["google"] = NoAccount
       THEN /\ out' = [NoOut EXCEPT !.kind = "not_found", !.user = u, !.prov = "google"]
            /\ UNCHANGED <<oauth, gmailVec, gmailLog, runs>>
       ELSE /\ \E vok \in BOOLEAN, lok \in BOOLEAN, rok \in BOOLEAN :
                 LET d == deleteUserGmailData(gmailVec, gmailLog, u, vok, lok) IN
                 /\ gmailVec' = d.vec
                 /\ gmailLog' = d.log
                 /\ out' = [NoOut EXCEPT !.kind = d.status, !.user = u, !.prov = "google"]
                 /\ oauth' = IF d.status = "deleted" /\ rok
                             THEN [oauth EXCEPT ![u]["google"] = NoAccount] ELSE oauth
            /\ runs' = Disturbed
    /\ UNCHANGED <<page, notionLog, notionVec, nops, aborted>>

    /\ UNCHANGED <<chatVars, call>>
(* --------------------------- search tools ------------------------------ *)
\* whole-numbered topK arguments the model passes to a tool (0 is also what
\* "|| 5" replaces)
TopKInputs == {0, 1, 11}

\* topK is a z.number(), not an integer: a number is kept as its count of
\* Unit-th parts (Unit is 1.0)
Unit == 4

\* Math.min(Math.max(topK || 5, 1), 10)
limitedTopK(topK) ==
    LET given == IF topK = 0 THEN 5 * Unit ELSE topK
        low   == IF given > Unit THEN given ELSE Unit
    IN  IF low < 10 * Unit THEN low ELSE 10 * Unit

\* the limit of the vector search for a whole-numbered topK, as a count of rows
SearchLimit(topK) == limitedTopK(topK * Unit) \div Unit

\* a search with no filter expression: every row of the collection matches
MilvusSearchUnfiltered(bag, userId, limit) ==
    LET match == BagToSet(bag)
        n     == IF Cardinality(match) < limit THEN Cardinality(match) ELSE limit
    IN  {H \in SUBSET match : Cardinality(H) = n}

\* milvus search with filter user_id == "<userId>" and the given limit: the
\* possible result sets are the sets of limit rows (all rows, when fewer)
\* among those the filter matches; which are nearest is up to the embeddings
MilvusSearch(bag, userId, limit) ==
    LET match == UserRows(bag, userId)
        n     == IF Cardinality(match) < limit THEN Cardinality(match) ELSE limit
    IN  {H \in SUBSET match : Cardinality(H) = n}

\* what a tool of user u returns: out.kind is "search" with the hits, or
\* "not_connected" / "tool_error" for the two error payloads
ToolOut(kind, u, p, hits) == [kind |-> kind, user |-> u, prov |-> p, hits |-> hits]

\* the awaited calls of a search tool, any of which may fail
SearchFailures == {"none", "findOne", "embedQuery", "search"}

\* the catch block of a search tool: a payload with an error field
ToolCaught(u, p) == ToolOut("tool_error", u, p, {})

\* a search tool that embeds the query before it looks at the account
SearchCallsEager(acc, fail) ==
    IF fail = "findOne" THEN <<"findOne">>
    ELSE IF fail = "embedQuery" \/ acc = NoAccount THEN <<"findOne", "embedQuery">>
    ELSE <<"findOne", "embedQuery", "search">>

\* the calls a search tool awaits, given the account row and the call that
\* fails: nothing after a failed call, nothing after a missing account
SearchCalls(acc, fail) ==
    IF fail = "findOne" \/ acc = NoAccount THEN <<"findOne">>
    ELSE IF fail = "embedQuery" THEN <<"findOne", "embedQuery">>
    ELSE <<"findOne", "embedQuery", "search">>

\* the func of a search tool of user u: the account lookup, then the query
\* embedding and the vector search with the limited topK (H is what the
\* search returns); out.calls is the calls it has awaited
SearchTool(u, p, fail, H) ==
    LET calls == SearchCalls(oauth[u][p], fail)
        ret   == IF fail = "findOne" THEN ToolCaught(u, p)
                 ELSE IF oauth[u][p] = NoAccount THEN ToolOut("not_connected", u, p, {})
                 ELSE IF fail # "none" THEN ToolCaught(u, p)
                 ELSE ToolOut("search", u, p, H)
    IN  [kind |-> ret.kind, user |-> u, prov |-> p, hits |-> ret.hits,
         calls |-> calls]

\* search_notion, the tool createNotionSearchTool(u) builds
search_notion(u, topK) ==
    /\ \E fail \in SearchFailures :
         IF fail = "none" /\ oauth[u]["notion"] # NoAccount
         THEN \E H \in MilvusSearch(notionVec, u, SearchLimit(topK)) :
                 out' = SearchTool(u, "notion", fail, H)
         ELSE out' = SearchTool(u, "notion", fail, {})
    /\ call' = NoCall
    /\ UNCHANGED <<oauth, page, stores, runs, nops, aborted>>
    /\ UNCHANGED chatVars

\* search_gmail, the tool createGmailSearchTool(u) builds
search_gmail(u, topK) ==
    /\ \E fail \in SearchFailures :
         IF fail = "none" /\ oauth[u]["google"] # NoAccount
         THEN \E H \in MilvusSearch(gmailVec, u, SearchLimit(topK)) :
                 out' = SearchTool(u, "google", fail, H)
         ELSE out' = SearchTool(u, "google", fail, {})
    /\ call' = NoCall
    /\ UNCHANGED <<oauth, page, stores, runs, nops, aborted>>
    /\ UNCHANGED chatVars

(* ------------------------- conversation memory ------------------------- *)
\* send-message events and clearChatHistory calls in one behaviour
MaxTurns == 2
\* model outputs with tool calls in one run of the graph
MaxRounds == 1
\* stream chunks of one turn
MaxTok == 2

Convs == {"c1", "c2"}
\* send-message handlers the process can have in flight
TurnSlots == {1, 2}
\* history objects ever allocated: at most one per turn
MaxObj == MaxTurns
\* the text of a chunk streamed by the model (a string of characters); a
\* chunk may carry no text
Chunks == {<<>>, <<"a">>, <<"b">>, <<"a", "b">>}
\* the text of every user message
Question == <<"q">>
\* ChatMessage rows at process start: c1 has one stored exchange, c2 is new
Stored0 ==
    [c \in Convs |->
        IF c = "c1"
        THEN <<[role |-> "user", content |-> Question],
               [role |-> "assistant", content |-> <<"a">>]>>
        ELSE <<>>]

\* no send-message handler in the slot
NoTurn == [pc |-> "idle", conv |-> "-", h |-> 0, node |-> "-", mode |-> "-",
           last |-> 0, rounds |-> 0, ntok |-> 0, text |-> <<>>,
           full |-> <<>>, sent |-> <<>>, content |-> <<>>, result |-> "-",
           emits |-> <<>>, toolErr |-> FALSE, ran |-> 0]

\* an event the handler emits on the socket; messageId is a constant of the
\* handler
Emit(ev) == [ev |-> ev, id |-> "messageId"]

\* chatHistoryStore, the history objects, initializedConversations
Mem == [store |-> store, hist |-> hist, nobj |-> nobj, inited |-> inited]

SetMem(m) ==
    /\ store' = m.store /\ hist' = m.hist /\ nobj' = m.nobj /\ inited' = m.inited

HumanMessage(content) == [type |-> "human", content |-> content]
AIMessage(content) == [type |-> "ai", content |-> content]

\* chatHistoryStore.set(conversationId, new InMemoryChatMessageHistory()) with
\* the given messages added
SetNewHistory(m, c, msgs) ==
    [m EXCEPT !.nobj = m.nobj + 1,
              !.hist = [m.hist EXCEPT ![m.nobj + 1] = msgs],
              !.store = [m.store EXCEPT ![c] = m.nobj + 1]]

\* getChatHistory: creates the history when the store has none
getChatHistory(m, c) == IF m.store[c] = 0 THEN SetNewHistory(m, c, <<>>) ELSE m

isConversationInitialized(m, c) == c \in m.inited

\* the replay loop of initializeChatHistoryFromDB
Replay(rows) ==
    [k \in 1..Len(rows) |->
        IF rows[k].role = "user" THEN HumanMessage(rows[k].content)
        ELSE AIMessage(rows[k].content)]

\* initializeChatHistoryFromDB(conversationId, messages); its awaits are on
\* in-memory addMessage calls, so no I/O completion comes in between
initializeChatHistoryFromDB(m, c, rows) ==
    IF c \in m.inited THEN m
    ELSE [SetNewHistory(m, c, Replay(rows)) EXCEPT !.inited = m.inited \cup {c}]

\* loadChatHistoryToMemory after messageRepository.find has settled (ok: it
\* resolved); a rejection is caught and logged
loadChatHistoryToMemory(m, c, rows, ok) ==
    IF ok /\ Len(rows) > 0 THEN initializeChatHistoryFromDB(m, c, rows) ELSE m

\* runLangGraphAgentStreaming up to the first model call: take the history of
\* the conversation, read the past messages, add the user message
StartAgent(m, c) ==
    LET m1 == getChatHistory(m, c)
        h  == m1.store[c]
    IN  [m1 EXCEPT !.hist = [m1.hist EXCEPT ![h] = Append(@, HumanMessage(Question))]]

\* the handler while the agent runs on history object h: stream-start is
\* emitted before the agent is called
AgentTurn(c, h) ==
    [NoTurn EXCEPT !.pc = "graph", !.conv = c, !.h = h,
                   !.node = "agent", !.mode = "stream", !.result = "pending",
                   !.emits = <<Emit("stream-start")>>]

\* socket.on("send-message"): the handler up to its first I/O await
send_message(t, c) ==
    /\ turns[t].pc = "idle"
    /\ nturns < MaxTurns
    /\ nturns' = nturns + 1
    /\ IF isConversationInitialized(Mem, c)
       THEN LET m == StartAgent(Mem, c) IN
            /\ SetMem(m)
            /\ turns' = [turns EXCEPT ![t] = AgentTurn(c, m.store[c])]
       ELSE /\ turns' = [turns EXCEPT ![t] = [NoTurn EXCEPT !.pc = "find", !.conv = c]]
            /\ UNCHANGED <<store, hist, nobj, inited>>
    /\ UNCHANGED <<dbMsgs, dbChats, created, served>>
    /\ UNCHANGED <<syncVars, call>>

\* messageRepository.find settles; the handler goes on into the agent
LoadHistory(t) ==
    LET r == turns[t] c == r.conv IN
    /\ r.pc = "find"
    /\ \E ok \in BOOLEAN :
         LET m == StartAgent(loadChatHistoryToMemory(Mem, c, dbMsgs[c], ok), c) IN
         /\ SetMem(m)
         /\ created' = IF ok /\ Len(dbMsgs[c]) > 0 THEN created \cup {c} ELSE created
         /\ turns' = [turns EXCEPT ![t] = AgentTurn(c, m.store[c])]
    /\ UNCHANGED <<dbMsgs, dbChats, nturns, served>>
    /\ UNCHANGED <<syncVars, call>>

\* clearChatHistory(conversationId)
clearChatHistory(c) ==
    /\ nturns < MaxTurns
    /\ nturns' = nturns + 1
    /\ store' = [store EXCEPT ![c] = 0]
    /\ inited' = inited \ {c}
    /\ served' = served \ {c}
    /\ UNCHANGED <<hist, nobj, dbMsgs, dbChats, created, turns>>
    /\ UNCHANGED <<syncVars, call>>

(* ------------------------------ agent graph ---------------------------- *)
\* a conditional edge that never ends the graph
alwaysTools(toolCalls) == "tools"

\* shouldContinue on the latest model output
shouldContinue(toolCalls) == IF toolCalls > 0 THEN "tools" ELSE "end"

\* a fallback that keeps its result from the token callback
FallbackSilent(sent, text) == sent

\* the fallback hands its whole result to onToken
FallbackTokens(sent, text) == Append(sent, text)

\* the concatenation of a sequence of strings
RECURSIVE Concat(_)
Concat(ss) == IF Len(ss) = 0 THEN <<>> ELSE Head(ss) \o Concat(Tail(ss))

\* an on_chat_model_stream event of the streamed run
ModelStream(t, tok) ==
    LET r == turns[t] IN
    /\ r.pc = "graph" /\ r.node = "agent" /\ r.mode = "stream"
    /\ r.ntok < MaxTok
    /\ turns' = [turns EXCEPT ![t] =
                   IF Len(tok) > 0
                   THEN [r EXCEPT !.ntok = r.ntok + 1, !.full = r.full \o tok,
                                  !.sent = Append(r.sent, tok),
                                  !.emits = Append(r.emits, Emit("stream-chunk"))]
                   ELSE [r EXCEPT !.ntok = r.ntok + 1]]
    /\ UNCHANGED <<store, hist, nobj, inited, dbMsgs, dbChats, created, nturns, served>>
    /\ UNCHANGED <<syncVars, call>>

\* the run throws: the handler's catch emits stream-error
AgentThrows(r) ==
    [r EXCEPT !.pc = "save", !.result = "error",
              !.emits = Append(r.emits, Emit("stream-error"))]

\* the agent node: the model call settles with an output that requests
\* toolCalls tool calls and has the given text, or it throws and the run with it
callModel(t, toolCalls, text) ==
    LET r == turns[t] IN
    /\ r.pc = "graph" /\ r.node = "agent"
    /\ toolCalls > 0 => r.rounds < MaxRounds
    /\ r.mode = "stream" => text = <<>>
    /\ \E ok \in BOOLEAN :
         IF ok
         THEN /\ turns' = [turns EXCEPT ![t] =
                   [r EXCEPT !.last = toolCalls, !.text = text,
                             !.node = shouldContinue(toolCalls),
                             !.rounds = IF toolCalls > 0 THEN r.rounds + 1 ELSE r.rounds]]
              /\ served' = served
         ELSE /\ turns' = [turns EXCEPT ![t] = AgentThrows(r)]
              /\ served' = served \cup {r.conv}
    /\ UNCHANGED <<store, hist, nobj, inited, dbMsgs, dbChats, created, nturns>>
    /\ UNCHANGED <<syncVars, call>>

\* a tool whose failure leaves its function as an exception [mutant]
ToolFailureThrown(r) == AgentThrows(r)

\* a tool that fails returns an error object from its catch block; the graph
\* goes on to the agent node with it
ToolFailure(r) == [r EXCEPT !.node = "agent", !.toolErr = TRUE, !.ran = r.ran + 1]

\* the tools node: the requested tools have run (ok: none of them failed);
\* ran counts the executions of the node in the turn
ToolNode(t, ok) ==
    LET r == turns[t] IN
    /\ r.pc = "graph" /\ r.node = "tools"
    /\ turns' = [turns EXCEPT ![t] =
                   IF ok THEN [r EXCEPT !.node = "agent", !.ran = r.ran + 1]
                   ELSE ToolFailure(r)]
    /\ UNCHANGED <<store, hist, nobj, inited, dbMsgs, dbChats, created, nturns, served>>
    /\ UNCHANGED <<syncVars, call>>

\* a test that takes the fallback after every streamed run
AlwaysFallback(full) == TRUE

\* `if (!fullResponse)` after the stream loop
NeedsFallback(full) == full = <<>>

\* the streamed run ended with no text: app.invoke runs the graph again
Fallback(t) ==
    LET r == turns[t] IN
    /\ r.pc = "graph" /\ r.node = "end" /\ r.mode = "stream" /\ NeedsFallback(r.full)
    /\ turns' = [turns EXCEPT ![t] =
                   [r EXCEPT !.mode = "invoke", !.node = "agent", !.rounds = 0]]
    /\ UNCHANGED <<store, hist, nobj, inited, dbMsgs, dbChats, created, nturns, served>>
    /\ UNCHANGED <<syncVars, call>>

\* the end of runLangGraphAgentStreaming: the fallback's result goes to onToken,
\* a non-empty response is added to the history, the result is returned
AgentReturn(t) ==
    LET r    == turns[t]
        full == IF r.mode = "invoke" THEN r.text ELSE r.full
        sent == IF r.mode = "invoke" THEN FallbackTokens(r.sent, full) ELSE r.sent
    IN
    /\ r.pc = "graph" /\ r.node = "end"
    /\ r.mode = "stream" => ~NeedsFallback(r.full)
    /\ hist' = IF Len(full) > 0
               THEN [hist EXCEPT ![r.h] = Append(@, AIMessage(full))] ELSE hist
    /\ turns' = [turns EXCEPT ![t] =
                   [r EXCEPT !.pc = "save", !.full = full, !.sent = sent,
                             !.content = full, !.result = "returned",
                             !.emits = (IF r.mode = "invoke"
                                        THEN Append(r.emits, Emit("stream-chunk"))
                                        ELSE r.emits)
                                       \o <<Emit("stream-end")>>]]
    /\ served' = served \cup {r.conv}
    /\ UNCHANGED <<store, nobj, inited, dbMsgs, dbChats, created, nturns>>
    /\ UNCHANGED <<syncVars, call>>

\* the rows the two saveMessage calls leave (uok, aok: the save succeeds;
\* neither call is awaited)
SavedRows(content, uok, aok) ==
    (IF uok THEN <<[role |-> "user", content |-> Question]>> ELSE <<>>)
    \o (IF aok THEN <<[role |-> "assistant", content |-> content]>> ELSE <<>>)

\* the background part of the handler: ensureChatExists settles (eok: its
\* queries succeed), then, after a returned run with a non-empty response, the
\* two messages are saved
SaveTurn(t) ==
    LET r == turns[t] c == r.conv IN
    /\ r.pc = "save"
    /\ \E eok \in BOOLEAN, uok \in BOOLEAN, aok \in BOOLEAN :
         /\ IF c \notin created /\ eok
            THEN dbChats' = dbChats \cup {c} /\ created' = created \cup {c}
            ELSE UNCHANGED <<dbChats, created>>
         /\ dbMsgs' = IF r.result = "returned" /\ Concat(r.sent) # <<>>
                      THEN [dbMsgs EXCEPT ![c] = @ \o SavedRows(Concat(r.sent), uok, aok)]
                      ELSE dbMsgs
    /\ turns' = [turns EXCEPT ![t] = NoTurn]
    /\ UNCHANGED <<store, hist, nobj, inited, nturns, served>>
    /\ UNCHANGED <<syncVars, call>>

(* ------------------- arguments and results of a search ----------------- *)
\* the largest topK argument, and the longest stored content
MaxTopK == 12
MaxContent == 510

\* the topK argument of a tool call: not given, or a number from -2 to MaxTopK
TopKArgs ==
    {[given |-> FALSE, value |-> 0]}
    \cup {[given |-> TRUE, value |-> v] : v \in (0 - 2 * Unit)..(MaxTopK * Unit)}

\* z.number().optional().default(5)
topKDefault(arg) == IF arg.given THEN arg.value ELSE 5 * Unit

\* a stored content of n characters
Content(n) == [i \in 1..n |-> "c"]

\* String.prototype.substring(start, end) for 0 <= start <= end
substring(s, start, end) ==
    SubSeq(s, start + 1, IF end < Len(s) THEN end ELSE Len(s))

\* content: result.content.substring(0, 500) + (result.content.length > 500 ? "..." : "")
formattedContent(content) ==
    substring(content, 0, 500) \o (IF Len(content) > 500 THEN <<".", ".", ".">> ELSE <<>>)

\* a search tool limits the topK of a call
LimitTopK(tool, arg) ==
    /\ call' = [fn |-> "limitedTopK", tool |-> tool, arg |-> arg,
                limit |-> limitedTopK(topKDefault(arg))]
    /\ UNCHANGED <<syncVars, chatVars>>

\* search_gmail formats a result with a content of n characters
FormatResult(n) ==
    /\ call' = [fn |-> "formattedResults", stored |-> n,
                content |-> formattedContent(Content(n))]
    /\ UNCHANGED <<syncVars, chatVars>>

(* ------------------------------ citations ------------------------------ *)
\* tool results captured during one turn
MaxCaptures == 3

\* the names a captured tool result comes with ("" when the event or the
\* message carries none)
ToolNames == {"search_notion", "search_gmail", "get_hubspot_contacts", ""}

Titles == {"x", "y"}
Senders == {"f", "g"}

\* an element of a results array; a field the element lacks is ""
Item(pageTitle, subject, from) ==
    [pageTitle |-> pageTitle, subject |-> subject, from |-> from]

\* what JSON.parse makes of a tool result: json is "invalid" (no JSON text),
\* "null", "number" or "object"; of an object, error is the error field (""
\* when it is missing or falsy), results is "none" (no such field), "bad" (a
\* value that cannot be iterated and has no elements) or "list" with the
\* elements in items, and contacts likewise with the contact names in names
Parsed ==
    [json |-> "object", error |-> "", results |-> "none", items |-> <<>>,
     contacts |-> "none", names |-> <<>>, total |-> 0]

\* the tool results of the model: what the three tools return (error
\* payloads, the no-result message, result lists, contact lists) and strings
\* of other shapes
ToolResults ==
    {[Parsed EXCEPT !.json = j] : j \in {"invalid", "null", "number"}}
    \cup {Parsed, [Parsed EXCEPT !.results = "bad"], [Parsed EXCEPT !.error = "failed"]}
    \cup {[Parsed EXCEPT !.error = "failed", !.results = "list",
                         !.items = <<Item("x", "", "")>>]}
    \cup {[Parsed EXCEPT !.results = "list", !.items = <<Item(t, "", "")>>] : t \in Titles}
    \cup {[Parsed EXCEPT !.results = "list",
                         !.items = <<Item("x", "", ""), Item("y", "", ""), Item("x", "", "")>>]}
    \cup {[Parsed EXCEPT !.results = "list", !.items = <<Item("", "x", f)>>] : f \in Senders}
    \cup {[Parsed EXCEPT !.results = "list",
                         !.items = <<Item("", "x", "f"), Item("", "x", "g")>>]}
    \cup {[Parsed EXCEPT !.contacts = "list", !.names = n, !.total = Len(n)] :
             n \in {<<>>, <<"n">>, <<"n", "m">>}}

Citation(tool, title, subtitle) == [tool |-> tool, title |-> title, subtitle |-> subtitle]

\* the loop over parsed.results that collects page titles
RECURSIVE NotionCitations(_, _, _)
NotionCitations(items, seenTitles, citations) ==
    IF items = <<>> THEN citations
    ELSE LET item == Head(items) IN
         IF item.pageTitle # "" /\ item.pageTitle \notin seenTitles
         THEN NotionCitations(Tail(items), seenTitles \cup {item.pageTitle},
                              Append(citations, Citation("notion", item.pageTitle, <<>>)))
         ELSE NotionCitations(Tail(items), seenTitles, citations)

\* the characters of a string of the model
Chars(str) ==
    CASE str = "" -> <<>>
      [] str = "a-b" -> <<"a", "-", "b">>
      [] str = "b-c" -> <<"b", "-", "c">>
      [] OTHER -> <<str>>

\* the template literal `${item.subject}-${item.from}`: one string
SubjectKey(subject, from) == Chars(subject) \o <<"-">> \o Chars(from)

\* the loop over parsed.results that collects subjects, one per key of
\* subject and sender; the subtitle is `From: ${item.from}`
RECURSIVE GmailCitations(_, _, _)
GmailCitations(items, seenSubjects, citations) ==
    IF items = <<>> THEN citations
    ELSE LET item == Head(items)
             key  == SubjectKey(item.subject, item.from)
         IN  IF item.subject # "" /\ key \notin seenSubjects
             THEN GmailCitations(Tail(items), seenSubjects \cup {key},
                                 Append(citations,
                                        Citation("gmail", item.subject,
                                                 <<"From: ", item.from>>)))
             ELSE GmailCitations(Tail(items), seenSubjects, citations)

\* `${contactCount} contact${contactCount > 1 ? "s" : ""} found`
ContactsTitle(contactCount) ==
    IF contactCount = 1 THEN "1 contact found" ELSE "2 contacts found"

\* the citation of a contact list: none when the count is 0
HubspotCitations(p, citations) ==
    LET contactCount == IF p.total # 0 THEN p.total ELSE Len(p.names) IN
    IF contactCount > 0
    THEN Append(citations, Citation("hubspot", ContactsTitle(contactCount), p.names))
    ELSE citations

\* a try block left by a throw keeps what it had collected
Thrown(citations) == [threw |-> TRUE, citations |-> citations]
Done(citations) == [threw |-> FALSE, citations |-> citations]

\* the try block of extractCitationsFromToolResult
ExtractBody(toolName, p) ==
    LET isNotion  == toolName = "search_notion"
        isGmail   == toolName = "search_gmail"
        isHubspot == toolName = "get_hubspot_contacts"
    IN
    IF p.json \in {"invalid", "null"} THEN Thrown(<<>>)
    ELSE IF p.error # "" THEN Done(<<>>)
    ELSE IF (isNotion \/ isGmail) /\ p.results = "bad" THEN Thrown(<<>>)
    ELSE IF isNotion /\ p.results = "list"
    THEN Done(NotionCitations(p.items, {}, <<>>))
    ELSE IF isGmail /\ p.results = "list"
    THEN Done(GmailCitations(p.items, {}, <<>>))
    ELSE IF isHubspot /\ p.contacts = "list"
    THEN Done(HubspotCitations(p, <<>>))
    ELSE IF ~isNotion /\ ~isGmail /\ ~isHubspot
    THEN IF p.results = "list" /\ p.items # <<>> /\ p.items[1].pageTitle # ""
         THEN Done(NotionCitations(p.items, {}, <<>>))
         ELSE IF p.results = "list" /\ p.items # <<>> /\ p.items[1].subject # ""
         THEN Done(GmailCitations(p.items, {}, <<>>))
         ELSE IF p.contacts = "list"
         THEN Done(HubspotCitations(p, <<>>))
         ELSE Done(<<>>)
    ELSE Done(<<>>)

\* a catch block that throws what it caught
Rethrown(body) == body

\* catch (e) {}: the throw is dropped
Swallowed(body) == Done(body.citations)

extractCitationsFromToolResult(toolName, p) == Swallowed(ExtractBody(toolName, p))

\* a deduplication that keeps every citation
KeepAll(allCitations, seenKeys, uniqueCitations) == allCitations

\* the closing loop of a turn: the first citation of every key
\* `${citation.tool}:${citation.title}`, in the order of allCitations
RECURSIVE uniqueCitations(_, _, _)
uniqueCitations(allCitations, seenKeys, unique) ==
    IF allCitations = <<>> THEN unique
    ELSE LET citation == Head(allCitations)
             key      == <<citation.tool, ":", citation.title>>
         IN  IF key \notin seenKeys
             THEN uniqueCitations(Tail(allCitations), seenKeys \cup {key},
                                  Append(unique, citation))
             ELSE uniqueCitations(Tail(allCitations), seenKeys, unique)

\* the events and the loop a tool result is captured in
CaptureEvents == {"on_tool_end", "on_chain_end", "invoke"}

NoCapture == [event |-> "-", name |-> "-", result |-> Parsed, got |-> <<>>]

\* a turn starts with const allCitations = []
StartCitations ==
    /\ call = NoCall
    /\ call' = [fn |-> "citations", n |-> 0, all |-> <<>>, last |-> NoCapture,
                state |-> "running", ret |-> <<>>]
    /\ UNCHANGED <<syncVars, chatVars>>

\* a tool result reaches the turn in an event (or in the final state of the
\* fallback run): allCitations.push(...extractCitationsFromToolResult(..))
Capture(event, toolName, result) ==
    /\ call.fn = "citations" /\ call.state = "running"
    /\ call.n < MaxCaptures
    /\ LET e == extractCitationsFromToolResult(toolName, result) IN
       call' = IF e.threw
               THEN [call EXCEPT !.state = "failed",
                                 !.last = [event |-> event, name |-> toolName,
                                           result |-> result, got |-> <<>>]]
               ELSE [call EXCEPT !.n = @ + 1,
                                 !.all = @ \o e.citations,
                                 !.last = [event |-> event, name |-> toolName,
                                           result |-> result, got |-> e.citations]]
    /\ UNCHANGED <<syncVars, chatVars>>

\* the elements of the results array of an email search: a subject (or
\* none) and a sender
MailItems == {Item("", subject, from) : subject \in {"", "a", "a-b"}, from \in {"b-c", "c"}}

\* results arrays of up to this many elements
MaxResults == 3

\* the citations of one email tool result, captured under the name of the
\* tool or under no name
ExtractMail(toolName, items) ==
    /\ call' = [fn |-> "extract", name |-> toolName, items |-> items,
                got |-> extractCitationsFromToolResult(toolName,
                           [Parsed EXCEPT !.results = "list", !.items = items]).citations]
    /\ UNCHANGED <<syncVars, chatVars>>

\* the end of the turn: the deduplicated list is returned
ReturnCitations ==
    /\ call.fn = "citations" /\ call.state = "running"
    /\ call' = [call EXCEPT !.state = "returned",
                            !.ret = uniqueCitations(call.all, {}, <<>>)]
    /\ UNCHANGED <<syncVars, chatVars>>

\* the rows of a search result as the elements of the results array, in
\* rank order (an order of the hits): page_title or subject and sender
RECURSIVE ResultItems(_, _)
ResultItems(hits, p) ==
    IF hits = {} THEN <<>>
    ELSE LET hit == CHOOSE h \in hits : TRUE IN
         <<IF p = "notion" THEN Item(hit.rec, "", "") ELSE Item("", hit.rec, "f")>>
         \o ResultItems(hits \ {hit}, p)

\* JSON.parse of what a search tool returned: an error field in the two
\* error payloads, no results field when nothing was found, else the results
SearchPayload(o) ==
    IF o.kind \in {"not_connected", "tool_error"} THEN [Parsed EXCEPT !.error = o.kind]
    ELSE IF o.hits = {} THEN Parsed
    ELSE [Parsed EXCEPT !.results = "list", !.items = ResultItems(o.hits, o.prov)]

\* the name of the tool createNotionSearchTool / createGmailSearchTool builds
SearchToolName(p) == IF p = "notion" THEN "search_notion" ELSE "search_gmail"

(* ----------------------------- CRM contacts ---------------------------- *)
\* the accounts an OAuthAccount row can belong to
Accounts == Providers \cup {"hubspot"}

\* a contact object of the CRM: the properties it has (a missing one is "")
Contact(firstname, lastname, email, company) ==
    [firstname |-> firstname, lastname |-> lastname, email |-> email, company |-> company]

\* response.data.results of the contact-list request
CrmContacts ==
    << Contact(<<"A", "b">>, <<>>, <<"c">>, <<>>),
       Contact(<<"c">>, <<"c">>, <<>>, <<"b", "a">>),
       Contact(<<"c">>, <<>>, <<"c">>, <<"c">>) >>

\* the search argument of a call: <<>> is no search term (or an empty one)
SearchTerms == {<<>>, <<"a">>, <<"B">>, <<"a", "b">>}

\* String.prototype.toLowerCase on the characters of the model
LowerChar(ch) == IF ch = "A" THEN "a" ELSE IF ch = "B" THEN "b"
                 ELSE IF ch = "N" THEN "n" ELSE ch

toLowerCase(s) == [i \in 1..Len(s) |-> LowerChar(s[i])]

\* String.prototype.includes
includes(s, t) ==
    \E i \in 0..(Len(s) - Len(t)) : SubSeq(s, i + 1, i + Len(t)) = t

\* contact.properties.<name> || "N/A"
OrNA(s) == IF s = <<>> THEN <<"N", "/", "A">> ELSE s

\* contacts.map(...): the formatted contact
formattedContact(c) ==
    [firstName |-> OrNA(c.firstname), lastName |-> OrNA(c.lastname),
     email |-> OrNA(c.email), company |-> OrNA(c.company)]

formattedContacts(contacts) == [i \in 1..Len(contacts) |-> formattedContact(contacts[i])]

\* the test of formattedContacts.filter(...)
matchesSearch(contact, search) ==
    LET searchLower == toLowerCase(search) IN
    \/ includes(toLowerCase(contact.firstName), searchLower)
    \/ includes(toLowerCase(contact.lastName), searchLower)
    \/ includes(toLowerCase(contact.email), searchLower)
    \/ includes(toLowerCase(contact.company), searchLower)

RECURSIVE filterContacts(_, _)
filterContacts(contacts, search) ==
    IF contacts = <<>> THEN <<>>
    ELSE IF matchesSearch(Head(contacts), search)
         THEN <<Head(contacts)>> \o filterContacts(Tail(contacts), search)
         ELSE filterContacts(Tail(contacts), search)

\* the payloads of get_hubspot_contacts, before JSON.stringify: kind is
\* "contacts" (total and contacts) or names the error message of an error
\* payload
ContactsPayload(contacts) ==
    [kind |-> "contacts", total |-> Len(contacts), contacts |-> contacts]

ErrorPayload(kind) == [kind |-> kind, total |-> 0, contacts |-> <<>>]

\* the success payload of the first request: filtered when a term is given
FirstPayload(contacts, search) ==
    IF search # <<>> THEN ContactsPayload(filterContacts(formattedContacts(contacts), search))
    ELSE ContactsPayload(formattedContacts(contacts))

\* the success payload of the retried request
RetryPayload(contacts, search) == ContactsPayload(formattedContacts(contacts))

\* an awaited call of the tool and how it ended
Awaited(op, res) == [op |-> op, res |-> res]

\* the tool call has ended with this payload
Returned(c, payload) == [c EXCEPT !.pc = "returned", !.ret = payload]

\* calls one tool call may await before it is cut off (no call of the tool
\* comes near it)
MaxAwaited == 9

\* a catch block of the tool that hands the failure on to the caller
FailedUncaught(c, res) == [c EXCEPT !.pc = "thrown"]

\* catch blocks that start the refresh and retry on every 401
FailedRetryAgain(c, res) ==
    IF res = "401" /\ Len(c.calls) < MaxAwaited
    THEN [c EXCEPT !.pc = "findOne", !.retry = TRUE]
    ELSE [c EXCEPT !.pc = "returned", !.ret = ErrorPayload("fetch_failed")]

\* the catch blocks of the tool, for a failure in the try block (c.retry
\* is FALSE): a 401 starts the refresh and retry, everything else is the
\* fetch-failed payload; and for a failure of the refresh and retry
Failed(c, res) ==
    IF c.retry THEN Returned(c, ErrorPayload("refresh_failed"))
    ELSE IF res = "401" THEN [c EXCEPT !.pc = "findOne", !.retry = TRUE]
    ELSE Returned(c, ErrorPayload("fetch_failed"))

\* the model calls get_hubspot_contacts of user u
get_hubspot_contacts(u, search) ==
    /\ call.fn = "none" \/ (call.fn = "get_hubspot_contacts" /\ call.pc = "returned")
    /\ call' = [fn |-> "get_hubspot_contacts", user |-> u, search |-> search,
                pc |-> "findOne", retry |-> FALSE, acc |-> NoAccount, calls |-> <<>>,
                ret |-> ErrorPayload("none")]
    /\ out' = NoOut
    /\ UNCHANGED <<oauth, page, stores, runs, nops, aborted>>
    /\ UNCHANGED chatVars

\* oauthRepository.findOne of the try block and of the 401 branch
HubspotFindOne ==
    /\ call.fn = "get_hubspot_contacts" /\ call.pc = "findOne"
    /\ \E ok \in BOOLEAN, expiring \in ExpiryChoices(oauth[call.user]["hubspot"]) :
         LET acc == oauth[call.user]["hubspot"]
             c   == [call EXCEPT !.calls = Append(@, Awaited("findOne",
                                      IF ~ok THEN "error"
                                      ELSE IF acc = NoAccount THEN "null" ELSE "ok"))]
         IN  call' = IF ~ok THEN Failed(c, "error")
                     ELSE IF acc = NoAccount
                     THEN IF c.retry THEN Returned(c, ErrorPayload("fetch_failed"))
                          ELSE Returned(c, ErrorPayload("not_connected"))
                     ELSE IF c.retry \/ expiring
                     THEN [c EXCEPT !.pc = "refresh", !.acc = acc]
                     ELSE [c EXCEPT !.pc = "get", !.acc = acc]
    /\ out' = NoOut
    /\ UNCHANGED <<oauth, page, stores, runs, nops, aborted>>
    /\ UNCHANGED chatVars

\* refreshHubspotToken on the account that findOne returned: throws without
\* a refresh token, or when the token request fails (with a 401 or
\* otherwise); saves the account with its new expiry date when it succeeds
HubspotRefresh ==
    /\ call.fn = "get_hubspot_contacts" /\ call.pc = "refresh"
    /\ \E res \in {"ok", "401", "error"} :
         LET res2 == IF call.acc.refresh THEN res ELSE "error"
             c    == [call EXCEPT !.calls = Append(@, Awaited("refresh", res2))]
         IN  /\ call' = IF res2 = "ok" THEN [c EXCEPT !.pc = "get"] ELSE Failed(c, res2)
             /\ oauth' = IF res2 = "ok"
                         THEN [oauth EXCEPT ![call.user]["hubspot"] =
                                  [call.acc EXCEPT !.exp = TRUE]]
                         ELSE oauth
    /\ out' = NoOut
    /\ UNCHANGED <<page, stores, runs, nops, aborted>>
    /\ UNCHANGED chatVars

\* axios.get of the contact list, of the try block and of the retry
HubspotGet ==
    /\ call.fn = "get_hubspot_contacts" /\ call.pc = "get"
    /\ \E res \in {"ok", "401", "error"}, n \in 0..Len(CrmContacts) :
         LET c        == [call EXCEPT !.calls = Append(@, Awaited("get", res))]
             contacts == SubSeq(CrmContacts, 1, n)
         IN  call' = IF res # "ok" THEN Failed(c, res)
                     ELSE IF c.retry THEN Returned(c, RetryPayload(contacts, c.search))
                     ELSE Returned(c, FirstPayload(contacts, c.search))
    /\ out' = NoOut
    /\ UNCHANGED <<oauth, page, stores, runs, nops, aborted>>
    /\ UNCHANGED chatVars

\* disconnectHubspot: 404 without an account, else the row is removed
disconnectHubspot(u) ==
    /\ IF oauth[u]["hubspot"] = NoAccount
       THEN /\ out' = [NoOut EXCEPT !.kind = "not_found", !.user = u, !.prov = "hubspot"]
            /\ UNCHANGED oauth
       ELSE /\ out' = [NoOut EXCEPT !.kind = "deleted", !.user = u, !.prov = "hubspot"]
            /\ oauth' = [oauth EXCEPT ![u]["hubspot"] = NoAccount]
    /\ UNCHANGED <<page, stores, runs, nops, aborted>>
    /\ UNCHANGED <<chatVars, call>>

(* ------------------------ the text of an email ------------------------- *)

\* a part of a message payload: its type, the decoded body.data (no
\* characters if it has none) and its sub-parts
Part(mimeType, data, parts) == [mimeType |-> mimeType, data |-> data, parts |-> parts]

\* parts without sub-parts
LeafParts ==
    {Part("text/plain", <<"a">>, <<>>), Part("text/plain", <<"b", " ">>, <<>>),
     Part("text/plain", <<>>, <<>>), Part("text/html", <<"a">>, <<>>)}

\* types of the multipart containers
Multiparts == {"multipart/alternative", "multipart/mixed"}

\* a container has up to this many sub-parts
MaxParts == 2

\* the containers of parts without sub-parts
Containers ==
    {Part(m, <<>>, parts) :
        m \in Multiparts, parts \in UNION {[1..n -> LeafParts] : n \in 1..MaxParts}}

\* the last lines of cleanEmailContent: surrounding white space is trimmed
RECURSIVE trim(_)
trim(content) ==
    IF content = <<>> THEN <<>>
    ELSE IF Head(content) = " " THEN trim(Tail(content))
    ELSE IF content[Len(content)] = " " THEN trim(SubSeq(content, 1, Len(content) - 1))
    ELSE content

cleanEmailContent(content) == trim(content)

\* the loop over payload.parts: a text/plain part with data is appended, a
\* multipart/alternative part with parts is extracted recursively, any
\* other part is passed over
RECURSIVE PartsText(_, _)
PartsText(parts, depth) ==
    IF parts = <<>> \/ depth = 0 THEN <<>>
    ELSE LET part == Head(parts)
             own  == IF part.mimeType = "text/plain" /\ part.data # <<>>
                     THEN part.data
                     ELSE IF part.mimeType = "multipart/alternative" /\ part.parts # <<>>
                     THEN cleanEmailContent(part.data
                              \o PartsText(part.parts, depth - 1))
                     ELSE <<>>
         IN  own \o PartsText(Tail(parts), depth)

\* extractEmailContent of a payload: its own body.data, then its parts
extractPayloadContent(payload) ==
    cleanEmailContent(payload.data \o PartsText(payload.parts, 2))

\* the extractor applied to a message
ExtractContent(payload) ==
    /\ call = NoCall
    /\ call' = [fn |-> "extractEmailContent", payload |-> payload,
                got |-> extractPayloadContent(payload)]
    /\ UNCHANGED <<syncVars, chatVars>>

(* --------------------------- specification ----------------------------- *)
Init ==
    /\ oauth = [u \in Users |-> [p \in Accounts |->
                  IF p = "notion"
                  THEN [on |-> TRUE, exp |-> FALSE, refresh |-> FALSE]
                  ELSE IF p = "hubspot"
                  THEN [on |-> TRUE, exp |-> TRUE, refresh |-> u \in Acting]
                  ELSE IF u \in Acting THEN NoAccount
                  ELSE [on |-> TRUE, exp |-> TRUE, refresh |-> TRUE]]]
    /\ page = [r \in Records |-> [ver |-> 1, len |-> 1]]
    /\ notionLog = [u \in Users |-> [r \in Records |->
                      IF <<u, r>> \in NotionSynced0
                      THEN [ver |-> 1, cnt |-> 1] ELSE NoRow]]
    /\ gmailLog = GmailSynced0
    /\ notionVec = SetToBag({[user |-> row[1], rec |-> row[2], idx |-> 0] :
                              row \in NotionSynced0})
    /\ gmailVec = SetToBag({[user |-> row[1], rec |-> row[2]] : row \in GmailSynced0})
    /\ runs = [s \in Slots |-> NoRun]
    /\ nops = 0
    /\ aborted = FALSE
    /\ out = NoOut
    /\ dbMsgs = Stored0
    /\ dbChats = {c \in Convs : Len(Stored0[c]) > 0}
    /\ created = {}
    /\ store = [c \in Convs |-> 0]
    /\ hist = [h \in 1..MaxObj |-> <<>>]
    /\ nobj = 0
    /\ inited = {}
    /\ turns = [t \in TurnSlots |-> NoTurn]
    /\ nturns = 0
    /\ served = {}
    /\ call = NoCall

\* no pipeline invocation is in flight
Idle == \A t \in Slots : Free(t)

\* a step of the run in slot s
RunStep(s) ==
    \/ NotionLoad(s) \/ NotionList(s) \/ NotionCheck(s) \/ NotionFetch(s)
    \/ NotionDelete(s) \/ NotionInsert(s) \/ NotionLog(s)
    \/ GmailLoad(s) \/ GmailListStep(s) \/ GmailCheck(s) \/ GmailFetch(s)
    \/ GmailInsert(s) \/ GmailLog(s)
    \/ TokenRefresh(s)
    \/ ProcessCrash(s)

\* sync runs one after the other, started directly or by an OAuth callback;
\* provider edits at any time
NextSync ==
    \/ \E u \in Acting, force \in BOOLEAN : Idle /\ ingestAllNotionPages(1, u, force)
    \/ \E u \in Acting, force \in BOOLEAN : Idle /\ ingestGmailEmails(1, u, force)
    \/ \E u \in Acting : Idle /\ handleNotionCallback(1, u)
    \/ \E u \in Acting : Idle /\ handleGoogleCallback(1, u)
    \/ \E r \in Records, n \in 0..MaxLen : EditPage(r, n)
    \/ \E s \in Slots : RunStep(s)

SpecSync == Init /\ [][NextSync]_vars

\* sync runs and disconnects one after the other
Next ==
    \/ NextSync
    \/ \E u \in Acting : Idle /\ disconnectNotion(u)
    \/ \E u \in Acting : Idle /\ disconnectGmail(u)

Spec == Init /\ [][Next]_vars

\* sync runs together with the agent's search tools, which any user may call
\* between runs
NextSearch ==
    \/ NextSync
    \/ \E u \in Users, topK \in TopKInputs : Idle /\ search_notion(u, topK)
    \/ \E u \in Users, topK \in TopKInputs : Idle /\ search_gmail(u, topK)

SpecSearch == Init /\ [][NextSearch]_vars

\* what the model may answer in the conversation-memory specification
ChatChunks == {<<"a">>}

\* turns on the conversations, two at a time, and clearChatHistory calls
NextChat ==
    \/ \E t \in TurnSlots, c \in Convs : send_message(t, c)
    \/ \E t \in TurnSlots : LoadHistory(t)
    \/ \E t \in TurnSlots, tok \in ChatChunks : ModelStream(t, tok)
    \/ \E t \in TurnSlots, text \in ChatChunks \cup {<<>>} : callModel(t, 0, text)
    \/ \E t \in TurnSlots : Fallback(t)
    \/ \E t \in TurnSlots : AgentReturn(t)
    \/ \E t \in TurnSlots : SaveTurn(t)
    \/ \E c \in Convs : clearChatHistory(c)

SpecChat == Init /\ [][NextChat]_vars

\* no send-message handler is inside the agent run or before it
NoTurnRunning == \A t \in TurnSlots : turns[t].pc \in {"idle", "save"}

\* turns that start one after the other: a send-message event arrives when
\* the agent runs of the earlier ones have ended (their background saves
\* may still be pending)
NextTurns ==
    \/ \E t \in TurnSlots, c \in Convs : NoTurnRunning /\ send_message(t, c)
    \/ \E t \in TurnSlots : LoadHistory(t)
    \/ \E t \in TurnSlots, tok \in ChatChunks : ModelStream(t, tok)
    \/ \E t \in TurnSlots, text \in ChatChunks \cup {<<>>} : callModel(t, 0, text)
    \/ \E t \in TurnSlots : Fallback(t)
    \/ \E t \in TurnSlots : AgentReturn(t)
    \/ \E t \in TurnSlots : SaveTurn(t)

SpecTurns == Init /\ [][NextTurns]_vars

\* tool calls one model output may request
ToolCallCounts == {0, 1, 2}

\* the first turn of the process, on either conversation, with every model
\* output and every way of streaming it
NextAgent ==
    \/ \E c \in Convs : nturns = 0 /\ send_message(1, c)
    \/ LoadHistory(1)
    \/ \E tok \in Chunks : ModelStream(1, tok)
    \/ \E n \in ToolCallCounts, text \in Chunks : callModel(1, n, text)
    \/ \E ok \in BOOLEAN : ToolNode(1, ok)
    \/ Fallback(1)
    \/ AgentReturn(1)
    \/ SaveTurn(1)

SpecAgent == Init /\ [][NextAgent]_vars

\* the citations of one turn: any tool results, under any name, captured in
\* any event
NextCite ==
    \/ StartCitations
    \/ \E ev \in CaptureEvents, name \in ToolNames, res \in ToolResults :
          Capture(ev, name, res)
    \/ ReturnCitations

SpecCite == Init /\ [][NextCite]_vars

\* citation extraction on every results array of an email search
NextMail ==
    \E toolName \in {"search_gmail", ""}, n \in 0..MaxResults :
       \E items \in [1..n -> MailItems] : ExtractMail(toolName, items)

SpecMail == Init /\ [][NextMail]_vars

\* a call of get_hubspot_contacts has not returned yet
InCall == call.fn = "get_hubspot_contacts" /\ call.pc # "returned"

\* calls of the three tools by the model, one after the other, for any user
\* and with any arguments, while users disconnect the CRM
NextTools ==
    \/ \E u \in Users, topK \in TopKInputs : ~InCall /\ search_notion(u, topK)
    \/ \E u \in Users, topK \in TopKInputs : ~InCall /\ search_gmail(u, topK)
    \/ \E u \in Users, search \in SearchTerms : get_hubspot_contacts(u, search)
    \/ HubspotFindOne
    \/ HubspotRefresh
    \/ HubspotGet
    \/ \E u \in Users : disconnectHubspot(u)

SpecTools == Init /\ [][NextTools]_vars

\* the search tools on every topK and on stored contents of every length
NextArgs ==
    \/ \E tool \in {"search_notion", "search_gmail"}, arg \in TopKArgs : LimitTopK(tool, arg)
    \/ \E n \in 0..MaxContent : FormatResult(n)

SpecArgs == Init /\ [][NextArgs]_vars

\* sync runs one after the other, with disconnects at any time, also while a
\* run is in flight
NextConc ==
    \/ \E u \in Acting, force \in BOOLEAN : Idle /\ ingestAllNotionPages(1, u, force)
    \/ \E u \in Acting, force \in BOOLEAN : Idle /\ ingestGmailEmails(1, u, force)
    \/ \E u \in Acting : Idle /\ handleNotionCallback(1, u)
    \/ \E u \in Acting : Idle /\ handleGoogleCallback(1, u)
    \/ \E s \in Slots : RunStep(s)
    \/ \E u \in Acting : disconnectNotion(u)
    \/ \E u \in Acting : disconnectGmail(u)

SpecConc == Init /\ [][NextConc]_vars

\* the extractor on a message without parts and on multipart messages with
\* one container among their parts
NextContent ==
    \/ \E data \in {<<>>, <<"a">>} : ExtractContent(Part("text/plain", data, <<>>))
    \/ \E m \in Multiparts, c \in Containers :
          \E pre \in {<<>>} \cup {<<p>> : p \in LeafParts},
             post \in {<<>>} \cup {<<p>> : p \in LeafParts} :
                ExtractContent(Part(m, <<>>, pre \o <<c>> \o post))

SpecContent == Init /\ [][NextContent]_vars

\* OAuth callbacks in quick succession: each starts a sync run in the
\* background, and the runs take their steps in any interleaving
NextPair ==
    \/ \E s \in Slots, u \in Acting : handleNotionCallback(s, u)
    \/ \E s \in Slots, u \in Acting : handleGoogleCallback(s, u)
    \/ \E s \in Slots : RunStep(s)

SpecPair == Init /\ [][NextPair]_vars

(* ------------------------------ claims -------------------------------- *)
\* the step is a step of a sync run (not a start, an edit or a handler)
InRunStep == nops' = nops /\ \E s \in Slots : ~Free(s)

\* the ledger reports (u, r) as synced, the record has text, and no vector
\* record of (u, r) is in the index
NotionOrphanLedger(u, r) ==
    notionLog[u][r] # NoRow /\ page[r].len > 0 /\ RecCount(notionVec, u, r) = 0

GmailOrphanLedger(u, r) ==
    <<u, r>> \in gmailLog /\ EmailText(r) = 1 /\ RecCount(gmailVec, u, r) = 0

\* C1: no step of a sync run (so no point at which the run may stop) makes the
\* ledger report a record with content as synced while the index holds no
\* VectorRecord of it: ledger writes come only after the vector writes.
C1_LedgerOnlyAfterVectors ==
    [][InRunStep =>
         \A u \in Users, r \in Records :
            /\ ~NotionOrphanLedger(u, r) => ~NotionOrphanLedger(u, r)'
            /\ ~GmailOrphanLedger(u, r) => ~GmailOrphanLedger(u, r)']_vars

\* C2: between operations (no run in flight), every sourceRecordId that has a
\* VectorRecord of a user in a provider's collection has a SyncLedgerEntry of
\* that user.
C2_VectorsSubsetOfLedger ==
    Idle => \A u \in Users, r \in Records :
               /\ RecCount(notionVec, u, r) > 0 => notionLog[u][r] # NoRow
               /\ RecCount(gmailVec, u, r) > 0 => <<u, r>> \in gmailLog

\* C3: after document sync runs that all ran to their end (none aborted, none
\* in flight), every ledger entry's chunkCount is the number of VectorRecords
\* of that user and page (so 0 when the page had no content).
C3_ChunkCountMatchesVectors ==
    (Idle /\ ~aborted) =>
        \A u \in Users, r \in Records :
            notionLog[u][r] # NoRow =>
                notionLog[u][r].cnt = RecCount(notionVec, u, r)

\* C4: a non-forced run that directly follows a complete, failure-free
\* non-forced run of the same user and provider, with no provider change in
\* between, skips every listed record: it never gets to fetch, embed, insert
\* or write the ledger.
C4_SecondRunSkipsAll ==
    \A s \in Slots :
        runs[s].rerun => runs[s].pc \notin {"fetch", "delete", "insert", "log"}

\* C5: in a non-forced document run, with a ledger entry at version T for the
\* record: a listed version <= T is skipped without any write; when a listed
\* version > T leads, without any failure, to the ledger write, the page's
\* VectorRecords are exactly the new chunk set and chunkCount is the number
\* of new chunks.
C5_ChangeDetection ==
    [][\A s \in Slots :
         LET r == runs[s] IN
         (InRunStep /\ r.prov = "notion" /\ ~r.force /\ r.pc \in {"check", "log"}
          /\ notionLog[r.user][Cur(r).id] # NoRow) =>
            LET old == notionLog[r.user][Cur(r).id] IN
            /\ (r.pc = "check" /\ Cur(r).ver <= old.ver) =>
                  /\ runs'[s].pc # "fetch"
                  /\ UNCHANGED stores
            /\ (r.pc = "log" /\ r.clean /\ Cur(r).ver > old.ver
                /\ notionLog' # notionLog) =>
                  /\ notionLog'[r.user][Cur(r).id].cnt = r.n
                  /\ RecBag(notionVec', r.user, Cur(r).id)
                       = chunkRows(r.user, Cur(r).id, r.n)]_vars

\* C6: when deleteUserData(userId, provider) has returned without error, no
\* VectorRecord and no SyncLedgerEntry of that user remains for the provider.
C6_DeletionComplete ==
    out.kind = "deleted" =>
        IF out.prov = "notion"
        THEN /\ UserRows(notionVec, out.user) = {}
             /\ \A r \in Records : notionLog[out.user][r] = NoRow
        ELSE /\ UserRows(gmailVec, out.user) = {}
             /\ \A r \in Records : <<out.user, r>> \notin gmailLog

\* the collection and sync-log rows of user u for provider p
DataOf(u, p) ==
    IF p = "notion" THEN <<UserBag(notionVec, u), notionLog[u]>>
    ELSE <<UserBag(gmailVec, u), {row \in gmailLog : row[1] = u}>>

\* C7: a deleteUserData(userId, provider) call, whether it returns or throws,
\* leaves the rows and ledger entries of every other user, and those of the
\* same user for the other provider, as they were.
C7_DeletionFrame ==
    [][out'.kind \in {"deleted", "delete_error"} =>
         \A u \in Users, p \in Providers :
            (u # out'.user \/ p # out'.prov) => DataOf(u, p)' = DataOf(u, p)]_vars

\* C7 witness: deleteUserNotionData("u1") has returned and u1's Notion data,
\* there from the start, is gone, while u2 has Notion data and u1 has Gmail data
C7_Witness ==
    /\ out.kind = "deleted" /\ out.user = "u1" /\ out.prov = "notion"
    /\ UserRows(notionVec, "u1") = {} /\ notionLog["u1"]["r1"] = NoRow
    /\ UserRows(notionVec, "u2") # {} /\ notionLog["u2"]["r2"] # NoRow
    /\ UserRows(gmailVec, "u1") # {} /\ <<"u1", "r1">> \in gmailLog

\* C8: no step of a sync run of user A changes a VectorRecord or a ledger entry
\* of another user B, also when both users have the same page.
C8_SyncFrame ==
    [][\A s \in Slots :
         (InRunStep /\ ~Free(s)) =>
            \A u \in Users \ {runs[s].user}, p \in Providers :
               DataOf(u, p)' = DataOf(u, p)]_vars

\* C9: a search tool bound to a user returns only rows whose user_id is that
\* user's.
C9_SearchOwnRowsOnly ==
    out.kind = "search" => \A h \in out.hits : h.user = out.user

\* C9 witness: a search returned rows while the collection also holds another
\* user's rows
C9_Witness ==
    /\ out.kind = "search" /\ out.hits # {}
    /\ \E x \in BagToSet(IF out.prov = "notion" THEN notionVec ELSE gmailVec) :
          x.user # out.user

\* C10: the promise of a sync entry point never rejects, and an OAuth callback
\* sends its redirect while the run it started is still pending.
C10_NeverRejects ==
    /\ \A s \in Slots : runs[s].result # "rejected"
    /\ out.kind = "redirect" =>
          \E s \in Slots : /\ runs[s].user = out.user /\ runs[s].prov = out.prov
                           /\ runs[s].result = "pending"

\* C10 witness: a run whose step failed ended in the outer catch and resolved
C10_Witness ==
    \E s \in Slots : runs[s].how = "caught" /\ runs[s].result = "resolved"

\* C11: when a step that processes one record (content fetch, embedding and
\* vector insert, ledger write) ends while later records are still in the
\* listing, the run is still in flight: it goes on with this record or with
\* the next one, it does not end.
C11_RecordFailureContinues ==
    [][\A s \in Slots :
         LET r == runs[s] IN
         (InRunStep /\ r.pc \in {"fetch", "delete", "insert", "log"}
          /\ r.i < Len(r.list) /\ runs'[s].pc # "idle") =>
            runs'[s].pc # "done"]_vars

\* C12: a run makes no vector write and no ledger write before its listing is
\* complete, and a listing call (on any page of the pagination) that fails
\* with a 401-class error ends the run there: the run has written nothing.
C12_ListingFailureAborts ==
    [][\A s \in Slots :
         (InRunStep /\ ~Free(s)) =>
            /\ runs[s].pc \in {"load", "list"} => UNCHANGED stores
            /\ out'.kind = "auth_failed" =>
                  /\ runs[s].pc = "list"
                  /\ runs'[s].pc = "done" /\ runs'[s].how = "caught"]_vars

\* C12 witness: a listing call of a run of u1 has just failed with a 401 and
\* the run is over, while u1 has ledger rows and vectors from earlier runs
C12_Witness ==
    /\ out.kind = "auth_failed" /\ out.user = "u1" /\ out.prov = "notion"
    /\ \E s \in Slots : runs[s].pc = "done" /\ runs[s].how = "caught"
    /\ notionLog["u1"]["r1"] # NoRow /\ UserRows(notionVec, "u1") # {}

C14_EmptyTextLedgerEntry ==
    \A s \in Slots :
        (runs[s].pc = "done" /\ runs[s].clean) =>
            LET u == runs[s].user IN
            IF runs[s].prov = "notion"
            THEN \A r \in NotionPages(u) :
                    page[r].len = 0 =>
                        notionLog[u][r] # NoRow /\ notionLog[u][r].cnt = 0
            ELSE \A r \in GmailInbox(u) :
                    EmailText(r) = 0 => <<u, r>> \in gmailLog

\* the ledger entry and the vectors of record x of user u, in both providers
RecData(u, x) ==
    <<notionLog[u][x], RecBag(notionVec, u, x),
      <<u, x>> \in gmailLog, RecBag(gmailVec, u, x)>>

\* C15: in a non-forced run the change test writes nothing, and when it does
\* not fail it skips the record exactly when a ledger entry exists with a
\* version not older than the listed one (page) or when a ledger entry exists
\* (email); a skipped record is left without any further step, and every step
\* spent on a record leaves the ledger rows and vectors of all other records
\* as they were.
C15_SkipWritesNothing ==
    [][\A s \in Slots :
         LET r == runs[s] IN
         (InRunStep /\ r.pc \in {"check", "fetch", "delete", "insert", "log"}
          /\ ~r.force) =>
            /\ \A u \in Users, x \in Records \ {Cur(r).id} :
                  RecData(u, x)' = RecData(u, x)
            /\ r.pc = "check" => UNCHANGED stores
            /\ (r.pc = "check" /\ runs'[s].how # "caught" /\ runs'[s].pc # "idle") =>
                  LET skip == IF r.prov = "notion"
                              THEN /\ notionLog[r.user][Cur(r).id] # NoRow
                                   /\ notionLog[r.user][Cur(r).id].ver >= Cur(r).ver
                              ELSE <<r.user, Cur(r).id>> \in gmailLog
                  IN  IF skip THEN runs'[s] = NextRec(r)
                      ELSE runs'[s] = [r EXCEPT !.pc = "fetch"]]_vars

\* C15 witness: the first run of the behaviour, a non-forced run of u1, is at
\* its second page; the first one listed, r1, was in the ledger at the listed
\* version, and its ledger row is as it was
C15_Witness ==
    \E s \in Slots :
        /\ nops = 1 /\ runs[s].prov = "notion" /\ runs[s].user = "u1"
        /\ ~runs[s].force /\ runs[s].clean
        /\ runs[s].pc = "check" /\ runs[s].i = 2 /\ runs[s].list[1].id = "r1"
        /\ notionLog["u1"]["r1"] = [ver |-> 1, cnt |-> 1]
        /\ RecCount(notionVec, "u1", "r1") = 1

\* user u has no vector and no ledger entry for provider p
NoDataOf(u, p) ==
    IF p = "notion"
    THEN UserRows(notionVec, u) = {} /\ \A r \in Records : notionLog[u][r] = NoRow
    ELSE UserRows(gmailVec, u) = {} /\ \A r \in Records : <<u, r>> \notin gmailLog

\* C16: a disconnect removes the OAuthAccount row only when the user's vectors
\* and ledger entries for the provider have been removed (a failed deletion
\* keeps the row), and a disconnect of a provider that is not connected
\* answers not-found and changes nothing.
C16_DisconnectOrder ==
    [][\A u \in Users, p \in Providers :
         (out'.kind \in {"deleted", "delete_error", "not_found"}
          /\ out'.user = u /\ out'.prov = p) =>
            /\ (oauth[u][p] # NoAccount /\ oauth'[u][p] = NoAccount) => NoDataOf(u, p)'
            /\ oauth[u][p] = NoAccount <=> out'.kind = "not_found"
            /\ out'.kind = "not_found" => UNCHANGED <<oauth, stores>>]_vars

\* C17: an initialization from storage (the conversation becomes initialized)
\* never replaces, in the store, a history object that a turn still running
\* on that conversation has taken, read and appended to.
C17_InitKeepsUsedHistory ==
    [][\A c \in Convs :
         (c \in inited' /\ c \notin inited) =>
            ~ \E t \in TurnSlots :
                 /\ turns[t].pc = "graph" /\ turns[t].conv = c
                 /\ turns[t].h = store[c] /\ store'[c] # store[c]]_vars

\* C18: a turn reads the durable message store (its handler awaits find) only
\* when no earlier turn on the conversation has been processed since the
\* process started or since clearChatHistory(conversationId).
C18_StorageReadOnce ==
    [][\A t \in TurnSlots :
         (turns[t].pc = "idle" /\ turns'[t].pc = "find") =>
            turns'[t].conv \notin served]_vars

\* C19: a run of the graph starts in the agent node; when a model call
\* settles, the graph goes to the tools node if the output requests at least
\* one tool call and ends if it requests none; the tools node goes back to the
\* agent node; so the graph ends only from the agent node, on an output
\* without tool calls.
C19_GraphTransitions ==
    [][\A t \in TurnSlots :
         LET r == turns[t] r2 == turns'[t] IN
         /\ (r.pc # "graph" /\ r2.pc = "graph") => r2.node = "agent"
         /\ (r.pc = "graph" /\ r.node = "end" /\ r2.pc = "graph" /\ r2.node # "end") =>
               r2.node = "agent"
         /\ (r.pc = "graph" /\ r.node = "agent" /\ r2.pc = "graph" /\ r2.node # "agent") =>
               /\ r2.node = "tools" <=> r2.last > 0
               /\ r2.node = "end" <=> r2.last = 0
         /\ (r.pc = "graph" /\ r.node = "tools" /\ r2 # r) =>
               r2.pc = "graph" /\ r2.node = "agent"
         /\ (r.node # "end" /\ r2.node = "end") =>
               r.node = "agent" /\ r2.last = 0]_vars

\* C19 witness: a graph run has ended after going through the tools node
C19_Witness ==
    \E t \in TurnSlots :
        /\ turns[t].pc = "graph" /\ turns[t].node = "end"
        /\ turns[t].rounds > 0 /\ turns[t].last = 0

\* C20: for a turn whose agent run has returned, the tokens handed to onToken,
\* concatenated in delivery order, are the content of the returned result.
C20_TokensMakeContent ==
    \A t \in TurnSlots :
        turns[t].result = "returned" => Concat(turns[t].sent) = turns[t].content

\* C20 witness: a run has returned after streaming one chunk of text before a
\* tool call and one after it
C20_Witness ==
    \E t \in TurnSlots :
        /\ turns[t].result = "returned" /\ turns[t].mode = "stream"
        /\ turns[t].rounds > 0 /\ Len(turns[t].sent) = 2
        /\ turns[t].content = <<"a", "b", "a">>

\* C21: the fallback (a second, non-streamed run of the graph) is taken only
\* when the streamed run has ended with no token delivered; the run then
\* returns after exactly one onToken call, with the content of the final
\* message.  A streamed run that delivered a token returns without the
\* fallback, and no onToken call comes after the stream has ended.
C21_FallbackOnlyWhenSilent ==
    [][\A t \in TurnSlots :
         LET r == turns[t] r2 == turns'[t] IN
         r.pc = "graph" =>
            /\ (r.mode = "stream" /\ r2.mode = "invoke") => r.sent = <<>>
            /\ (r.mode = "stream" /\ r.node = "end" /\ r2.mode = "stream") =>
                  r2.sent = r.sent
            /\ (r2.result = "returned" /\ r.mode = "stream") =>
                  r.sent # <<>> /\ r2.sent = r.sent
            /\ (r2.result = "returned" /\ r.mode = "invoke") =>
                  r.sent = <<>> /\ r2.sent = <<r.text>>]_vars

\* C21 witness: a turn has returned through the fallback, after a tool round
\* of the second run, with one token that is the final text
C21_Witness ==
    \E t \in TurnSlots :
        /\ turns[t].result = "returned" /\ turns[t].mode = "invoke"
        /\ turns[t].rounds > 0
        /\ turns[t].sent = << <<"a", "b">> >> /\ turns[t].content = <<"a", "b">>

\* the (tool, title) pair of a citation
CitedPair(citation) == <<citation.tool, citation.title>>

\* the positions of allCitations at which a pair occurs for the first time
FirstCaptures ==
    {k \in 1..Len(call.all) :
        \A m \in 1..(k - 1) : CitedPair(call.all[m]) # CitedPair(call.all[k])}

\* C22: the citation list a turn returns has no two entries with the same
\* (tool, title), whatever was captured and in whatever order, and it is the
\* list of the first occurrences of the pairs, in capture order.
C22_CitationsUnique ==
    (call.fn = "citations" /\ call.state = "returned") =>
        /\ \A i, j \in 1..Len(call.ret) :
              i # j => CitedPair(call.ret[i]) # CitedPair(call.ret[j])
        /\ Len(call.ret) = Cardinality(FirstCaptures)
        /\ \A k \in FirstCaptures :
              call.ret[Cardinality({m \in FirstCaptures : m <= k})] = call.all[k]

\* C22 witness: a turn has returned one citation of a subject that was
\* captured three times, first from sender f and later from sender g
C22_Witness ==
    /\ call.fn = "citations" /\ call.state = "returned"
    /\ call.n = MaxCaptures
    /\ Len(call.all) = 3
    /\ call.all[1] = Citation("gmail", "x", <<"From: ", "f">>)
    /\ call.all[2] = Citation("gmail", "x", <<"From: ", "f">>)
    /\ call.all[3] = Citation("gmail", "x", <<"From: ", "g">>)
    /\ call.ret = <<Citation("gmail", "x", <<"From: ", "f">>)>>

\* C23: extracting citations never fails the turn, and a tool result that is
\* not JSON, that is JSON null or a number, whose results cannot be iterated,
\* or that carries an error message (every tool writes a non-empty one, and
\* the test is by truthiness) adds no citation, whatever else is in it.
C23_ExtractionNeverFails ==
    call.fn = "citations" =>
        /\ call.state # "failed"
        /\ LET p == call.last.result IN
           (p.json # "object" \/ p.results = "bad" \/ p.error # "") =>
               call.last.got = <<>>

\* C23 witness: search_notion's result with an error message and a results
\* list that names a page was captured and added nothing
C23_Witness ==
    /\ call.fn = "citations" /\ call.state = "running"
    /\ call.last.name = "search_notion"
    /\ call.last.result.error # "" /\ call.last.result.items # <<>>
    /\ call.last.result.items[1].pageTitle = "x"
    /\ call.last.got = <<>>
    /\ call.all # <<>>

\* the last step was a return of a search tool
SearchReturned == "calls" \in DOMAIN out

\* the kinds of payload with an error field
ErrorKinds == {"not_connected", "tool_error", "refresh_failed", "fetch_failed"}

\* the last call the tool awaited
LastAwaited == call.calls[Len(call.calls)]

\* C24: search_notion, search_gmail and get_hubspot_contacts never throw to
\* the node that runs them: whatever the arguments and whichever awaited
\* call fails (account lookup, token refresh, embedding, vector search,
\* contact request), the call ends by returning one payload, and when the
\* last call it awaited failed the payload is one with an error field.
C24_ToolsNeverThrow ==
    /\ out.kind # "thrown"
    /\ SearchReturned =>
          /\ out.kind \in {"search", "not_connected", "tool_error"}
          /\ Len(out.calls) < 3 => out.kind \in ErrorKinds
    /\ call.fn = "get_hubspot_contacts" =>
          /\ call.pc \in {"findOne", "refresh", "get", "returned"}
          /\ call.pc = "returned" =>
                /\ call.ret.kind \in ErrorKinds \cup {"contacts"}
                /\ LastAwaited.res # "ok" => call.ret.kind \in ErrorKinds

\* C24 witness: a contact request was answered 401, the token was refreshed
\* and the retried request failed too; the tool returned an error payload
C24_Witness ==
    /\ call.fn = "get_hubspot_contacts" /\ call.pc = "returned"
    /\ call.calls = <<Awaited("findOne", "ok"), Awaited("get", "401"),
                      Awaited("findOne", "ok"), Awaited("refresh", "ok"),
                      Awaited("get", "error")>>
    /\ call.ret = ErrorPayload("refresh_failed")

\* the citations the turn extracts from what the search tool has returned
SearchCitations ==
    extractCitationsFromToolResult(SearchToolName(out.prov), SearchPayload(out)).citations

\* C25: when the user has no account of the provider, the search tool
\* returns a payload with an error field after the account lookup alone (no
\* embedding call, no vector search), and that result adds no citation.
C25_NotConnectedNoSearch ==
    (SearchReturned /\ oauth[out.user][out.prov] = NoAccount) =>
        /\ out.kind \in ErrorKinds
        /\ out.calls = <<"findOne">>
        /\ SearchCitations = <<>>

\* C25 witness: search_gmail of u1, who has no Google account, returned the
\* not-connected payload
C25_Witness ==
    /\ SearchReturned
    /\ out.user = "u1" /\ out.prov = "google" /\ oauth["u1"]["google"] = NoAccount
    /\ out.kind = "not_connected"
    /\ SearchCitations = <<>>

\* the position of the contact request of the try block when it was
\* answered 401 (0: there was none): no call before it has failed
First401 ==
    LET at == {k \in 1..Len(call.calls) :
                 /\ call.calls[k] = Awaited("get", "401")
                 /\ \A m \in 1..(k - 1) : call.calls[m].res = "ok"}
    IN  IF at = {} THEN 0 ELSE CHOOSE k \in at : TRUE

\* the positions after the first 401 at which the tool awaited op
After401(op) ==
    {k \in (First401 + 1)..Len(call.calls) : call.calls[k].op = op}

\* the contact requests of the call
Requests == {k \in 1..Len(call.calls) : call.calls[k].op = "get"}

\* the call has returned and one of its contact requests was answered 401
Returned401 ==
    call.fn = "get_hubspot_contacts" /\ call.pc = "returned" /\ First401 > 0

\* after the first 401: no request without a successful refresh before it, at
\* most one request, an error payload unless that request succeeded, and at
\* most two requests in the whole call
RetryOnce ==
    /\ Cardinality(After401("refresh")) <= 1
    /\ Cardinality(After401("get")) <= 1
    /\ \A k \in After401("get") :
          k = Len(call.calls) /\ call.calls[k - 1] = Awaited("refresh", "ok")
    /\ (\A k \in After401("refresh") : call.calls[k].res = "ok") =>
          Cardinality(After401("get")) = Cardinality(After401("refresh"))
    /\ LastAwaited.res # "ok" => call.ret.kind \in ErrorKinds
    /\ Cardinality(Requests) <= 2

\* C26 as stated: a 401 of the contact request is followed by exactly one
\* token refresh (and one retry when the refresh succeeds).
C26_AsStated ==
    Returned401 => (Cardinality(After401("refresh")) = 1 /\ RetryOnce)

\* C26: a 401 of a contact request makes the tool read the account row again;
\* when that lookup succeeds and finds the row, exactly one token refresh
\* follows, and exactly one retry of the request when the refresh succeeds;
\* when the lookup fails or finds no row there is no refresh and no retry.
\* When the lookup, the refresh or the retry fails the tool returns an
\* error payload, without a further refresh or retry: a call makes at most
\* two contact requests.
C26_RefreshAndRetryOnce ==
    Returned401 =>
        /\ call.calls[First401 + 1].op = "findOne"
        /\ Cardinality(After401("refresh")) =
              (IF call.calls[First401 + 1].res = "ok" THEN 1 ELSE 0)
        /\ RetryOnce

\* C26 witness: the first request was answered 401, the row was read again,
\* the token was refreshed and the retried request succeeded
C26_Witness ==
    /\ Returned401
    /\ call.calls = <<Awaited("findOne", "ok"), Awaited("get", "401"),
                      Awaited("findOne", "ok"), Awaited("refresh", "ok"),
                      Awaited("get", "ok")>>
    /\ call.ret.kind = "contacts" /\ call.ret.total = 3

\* C27: when get_hubspot_contacts was called with a search term and returns a
\* contact list, every contact of the list has the term, compared without
\* case, in its first name, last name, email or company, and total is the
\* length of the list; on the path of the first request and on the path of
\* the retry after a 401.
C27_SearchTermFilters ==
    (call.fn = "get_hubspot_contacts" /\ call.pc = "returned"
        /\ call.ret.kind = "contacts" /\ call.search # <<>>) =>
        /\ call.ret.total = Len(call.ret.contacts)
        /\ \A i \in 1..Len(call.ret.contacts) :
              LET contact == call.ret.contacts[i] IN
              \E field \in {contact.firstName, contact.lastName,
                            contact.email, contact.company} :
                 includes(toLowerCase(field), toLowerCase(call.search))

\* C28: for every topK the model passes to search_notion or search_gmail
\* (none, 0, a negative one, one above 10, any other number), the limit of the
\* vector search is a whole number from 1 to 10, it is 5 when no topK is
\* given, and it is topK when topK is from 1 to 10.
C28_LimitInRange ==
    call.fn = "limitedTopK" =>
        /\ call.limit % Unit = 0
        /\ Unit <= call.limit /\ call.limit <= 10 * Unit
        /\ ~call.arg.given => call.limit = 5 * Unit
        /\ (call.arg.given /\ Unit <= call.arg.value /\ call.arg.value <= 10 * Unit) =>
              call.limit = call.arg.value

\* C29: the content of a result of search_gmail is at most 500 characters
\* long, whatever the length of the stored content.
C29_ContentAtMost500 ==
    call.fn = "formattedResults" => Len(call.content) <= 500

\* C30: whenever a user has no OAuthAccount row of a provider, the index
\* holds no VectorRecord and the ledger no entry of that user for the
\* provider; in particular, once the row is gone and both are empty they stay
\* empty for as long as there is no row, also while a sync run that was
\* started before the disconnect goes on.
C30_StaysEmptyWithoutAccount ==
    [][\A u \in Users, p \in Providers :
         (oauth[u][p] = NoAccount /\ oauth'[u][p] = NoAccount /\ NoDataOf(u, p))
            => NoDataOf(u, p)']_vars

\* C31: between sync runs that ran one after the other (non-forced, forced,
\* or after a run in which a ledger write failed), the Notion collection
\* holds at most one VectorRecord per (userId, pageId, chunkIndex) and the
\* Gmail collection at most one per (userId, emailId).
C31_NoDuplicateVectors ==
    Idle =>
        /\ \A x \in BagToSet(notionVec) : notionVec[x] <= 1
        /\ \A x \in BagToSet(gmailVec) : gmailVec[x] <= 1

\* the positions of a results array at which a (subject, sender) pair with a
\* subject occurs for the first time
FirstPairs ==
    {k \in 1..Len(call.items) :
        /\ call.items[k].subject # ""
        /\ \A m \in 1..(k - 1) :
              <<call.items[m].subject, call.items[m].from>>
                 # <<call.items[k].subject, call.items[k].from>>}

\* C32: from one email tool result the extraction yields exactly one citation
\* for every distinct (subject, sender) pair that has a subject, in the order
\* of first occurrence, with the subject as title and "From: " and the
\* sender as subtitle; results that differ in subject or in sender are never
\* merged into one citation.
C32_OneCitationPerPair ==
    call.fn = "extract" =>
        /\ Len(call.got) = Cardinality(FirstPairs)
        /\ \A k \in FirstPairs :
              call.got[Cardinality({m \in FirstPairs : m <= k})] =
                 Citation("gmail", call.items[k].subject,
                          <<"From: ", call.items[k].from>>)

\* the characters of the text/plain parts of a list of parts at any depth,
\* in part order, white space left out
RECURSIVE PlainText(_, _)
PlainText(parts, depth) ==
    IF parts = <<>> \/ depth = 0 THEN <<>>
    ELSE LET part == Head(parts)
         IN  (IF part.mimeType = "text/plain" THEN part.data ELSE <<>>)
                \o PlainText(part.parts, depth - 1)
                \o PlainText(Tail(parts), depth)

NotBlank(ch) == ch # " "

\* C33: the extractor returns the text of every text/plain part of the
\* message at any depth, in part order, whatever the type of the enclosing
\* multipart containers; a message whose only text/plain part lies below a
\* container is not empty.
C33_EveryPlainPart ==
    call.fn = "extractEmailContent" =>
        SelectSeq(call.got, NotBlank)
            = SelectSeq(PlainText(<<call.payload>>, 3), NotBlank)

\* the run in slot s is about to write the ledger row of a page whose content
\* fetch failed: the page has text and was not edited since it was listed,
\* yet the fetch gave no content
FetchFailed(s) ==
    LET r == runs[s] IN
    /\ r.pc = "log" /\ r.prov = "notion" /\ r.n = 0
    /\ page[Cur(r).id] = [ver |-> Cur(r).ver, len |-> page[Cur(r).id].len]
    /\ page[Cur(r).id].len > 0

\* C34: when the content fetch of a changed page failed, the run does not
\* write the page to the ledger at the new version, so the next non-forced
\* run processes the page again.
C34_FailedFetchNotLedgered ==
    [][\A s \in Slots :
          (FetchFailed(s) /\ shouldSyncPage(notionLog, runs[s].user,
                                            Cur(runs[s]).id, Cur(runs[s]).ver))
             => shouldSyncPage(notionLog', runs[s].user,
                               Cur(runs[s]).id, Cur(runs[s]).ver)]_vars

\* the terminal events of a send-message handler
Terminal == {"stream-end", "stream-error"}

\* what the handler in slot t has emitted so far is well formed: first
\* stream-start, then stream-chunk events with the id of the stream-start,
\* a terminal event only in the last place
StreamOrdered(t) ==
    LET e == turns[t].emits IN
    /\ e # <<>> => e[1].ev = "stream-start"
    /\ \A k \in 2..Len(e) :
          /\ e[k].id = e[1].id
          /\ e[k].ev \in Terminal \cup {"stream-chunk"}
          /\ e[k].ev \in Terminal => k = Len(e)

\* C35: for a send-message event the handler emits exactly one stream-start,
\* then stream-chunk events with the id of the stream-start, then exactly one
\* of stream-end and stream-error and nothing after it; stream-error comes
\* only from an exception of the agent run (the model call), never from a
\* tool failure alone.
C35_StreamProtocol ==
    \A t \in TurnSlots :
       LET r == turns[t] e == r.emits IN
       /\ StreamOrdered(t)
       /\ r.pc = "graph" => (e # <<>> /\ e[Len(e)].ev \notin Terminal)
       /\ r.pc \in {"idle", "find"} => e = <<>>
       /\ r.pc = "save" =>
             /\ Len(e) >= 2
             /\ e[Len(e)].ev \in Terminal
             /\ e[Len(e)].ev = "stream-error" => (r.result = "error" /\ r.node = "agent")
             /\ e[Len(e)].ev = "stream-end" => r.result = "returned"

\* a turn in which a tool failed and chunks were streamed has ended with
\* stream-end
C35_Witness ==
    \E t \in TurnSlots :
       LET r == turns[t] e == r.emits IN
       /\ r.pc = "save" /\ r.toolErr /\ Len(e) >= 3
       /\ e[2].ev = "stream-chunk" /\ e[Len(e)].ev = "stream-end"

Paired(msgs) ==
    /\ Len(msgs) % 2 = 0
    /\ \A k \in 1..Len(msgs) :
          msgs[k].type = (IF k % 2 = 1 THEN "human" ELSE "ai")

\* C37: a failed turn leaves the in-memory history of the conversation as it
\* was before the turn, so between turns the history of every conversation is
\* a sequence of (user, assistant) pairs.
C37_HistoryPaired ==
    NoTurnRunning =>
        \A c \in Convs : store[c] # 0 => Paired(hist[store[c]])

\* msgs is an initial part of more
IsPrefix(msgs, more) ==
    Len(msgs) <= Len(more) /\ SubSeq(more, 1, Len(msgs)) = msgs

\* C38: the messages that earlier turns put into the in-memory history of a
\* conversation stay in it, in order, when a later turn starts: unless the
\* history is cleared, no step (the rehydration from storage included)
\* discards them, whatever the state of the background saves.
C38_HistoryKept ==
    [][\A c \in Convs :
          (store[c] # 0 /\ store'[c] # 0 /\ Paired(hist[store[c]]))
             => IsPrefix(hist[store[c]], hist'[store'[c]])]_vars

\* the rows a step adds to the stored messages of chat c
AddedRows(c) == SubSeq(dbMsgs'[c], Len(dbMsgs[c]) + 1, Len(dbMsgs'[c]))

\* C39: of a completed turn with an answer the store receives the user
\* message and then the assistant message, both or neither: the rows a turn
\* adds to a chat are none, or its user row followed by its assistant row.
C39_BothInOrderOrNeither ==
    [][\A c \in Convs :
          /\ IsPrefix(dbMsgs[c], dbMsgs'[c])
          /\ \/ AddedRows(c) = <<>>
             \/ /\ Len(AddedRows(c)) = 2
                /\ AddedRows(c)[1].role = "user"
                /\ AddedRows(c)[2].role = "assistant"]_vars

\* both slots hold a run that went through its whole listing and returned
\* with no failure
BothFinished == \A s \in Slots : runs[s].pc = "done" /\ runs[s].clean

\* C40: two sync runs of the same user and provider that execute at the same
\* time leave, once both have finished, the state a single run leaves: no
\* duplicated VectorRecord, and in every ledger row a chunkCount equal to
\* the number of chunks stored for the record.
C40_ConcurrentRunsAsOne ==
    BothFinished =>
        /\ \A x \in BagToSet(notionVec) : notionVec[x] <= 1
        /\ \A x \in BagToSet(gmailVec) : gmailVec[x] <= 1
        /\ \A u \in Acting, r \in Records :
              notionLog[u][r] # NoRow =>
                 notionLog[u][r].cnt = RecCount(notionVec, u, r)

=============================================================================
